---- MODULE Spec2Model ----
(***************************************************************************)
(* Model of the futures-trading console of src/blc23.py (the latest        *)
(* revision of BinanceCalculatorApp): the Decimal quantizer, the target    *)
(* price calculation, the leverage-bracket capper, the quantity helpers    *)
(* (Max, SuperMax, slider) and the order builders (grid entry / target,    *)
(* manual limit close).                                                    *)
(*                                                                         *)
(* Numbers.  The program computes with decimal.Decimal.  A value that is   *)
(* the result of arithmetic is modelled as an exact rational [n, d] with   *)
(* d > 0, in lowest terms, counted in "units": one unit is the finest      *)
(* decimal place that the inputs of the model use.  A Decimal whose        *)
(* exponent matters (tick_size, step_size: Decimal.quantize rounds to the  *)
(* EXPONENT of its argument) is modelled as [c, e], coefficient and        *)
(* exponent, meaning c * 10^e units.                                       *)
(***************************************************************************)
EXTENDS Integers, Sequences, FiniteSets, TLC

VARIABLES
    current_selected_symbol, \* symbol chosen in the combo box
    tick_size,               \* Decimal [c, e]; c = 0 is "unknown"
    step_size,               \* Decimal [c, e]; c = 0 is "unknown"
    leverage_brackets,       \* sequence of tiers [floor, cap, lev]
    available_balance,       \* rational
    best_ask_price,          \* rational, 0 when no book data yet
    best_bid_price,          \* rational, 0 when no book data yet
    position_type,           \* "none" | "long" | "short" (Long/Short buttons)
    entry_price_input,       \* text field: Empty or a rational
    leverage_input,          \* text field: Empty or an integer (as a rational)
    roi_input,               \* text field: Empty or a rational (percent)
    quantity_input,          \* text field: Empty or a rational
    quantity_slider,         \* 0 .. 100
    fee_mode,                \* "maker" | "taker" | "tm" (radio buttons)
    target_price_label,      \* "NA" | "INVALID" | "PRICE"
    calculated_target_price_decimal, \* None or a rational
    calculated_ntp_decimal,  \* None or a rational
    exchange_position,       \* per symbol: signed position amount and entry price
    exchange_balance,        \* available balance the exchange reports
    worker,                  \* the depth listener and its thread
    data_received,           \* depth messages emitted and not yet delivered
    latest_order_book_data,  \* the buffered depth message, NoData when none
    ask_price_labels,        \* the five ask rows of the order-book box
    bid_price_labels,        \* the five bid rows of the order-book box
    last,                    \* record of what the last handler computed / submitted
    probe                    \* inputs and outputs of a direct call of a pure function

appvars == <<current_selected_symbol, tick_size, step_size, leverage_brackets,
             available_balance, best_ask_price, best_bid_price, position_type,
             entry_price_input, leverage_input, roi_input, quantity_input,
             quantity_slider, fee_mode, target_price_label,
             calculated_target_price_decimal, calculated_ntp_decimal,
             exchange_position, exchange_balance, worker, data_received,
             latest_order_book_data, ask_price_labels, bid_price_labels>>

vars == <<appvars, last, probe>>

-----------------------------------------------------------------------------
(* Exact rational arithmetic (stands for Decimal +, -, *, /). *)

Abs(x) == IF x < 0 THEN -x ELSE x

RECURSIVE GCD(_, _)
GCD(a, b) == IF b = 0 THEN a ELSE GCD(b, a % b)

Rat(n, d) ==
    LET s == IF d < 0 THEN -1 ELSE 1
        g == GCD(Abs(n), Abs(d))
    IN  [n |-> (s * n) \div g, d |-> (s * d) \div g]

RInt(k) == [n |-> k, d |-> 1]
\* An empty text field, and the None of an attribute: no number (d = 0).
Empty == [n |-> 0, d |-> 0]
None == Empty
IsEmpty(x) == x.d = 0 /\ x.n = 0
\* The text "MAX" of the limit-close quantity field.
MaxText == [n |-> 1, d |-> 0]
RZero == RInt(0)
ROne == RInt(1)
RAdd(x, y) == Rat(x.n * y.d + y.n * x.d, x.d * y.d)
RNeg(x) == [n |-> -x.n, d |-> x.d]
RSub(x, y) == RAdd(x, RNeg(y))
\* The factors are reduced crosswise first, which keeps the products small.
RMul(x, y) ==
    LET a == Rat(x.n, y.d)
        b == Rat(y.n, x.d)
    IN  Rat(a.n * b.n, a.d * b.d)
\* Decimal division; the caller handles y = 0 (decimal.DivisionByZero).
RDiv(x, y) == RMul(x, [n |-> y.d, d |-> y.n])
RLt(x, y) == x.n * y.d < y.n * x.d
RLe(x, y) == x.n * y.d <= y.n * x.d
RAbs(x) == [n |-> Abs(x.n), d |-> x.d]
IsInteger(x) == x.d = 1

RECURSIVE Pow10(_)
Pow10(e) == IF e = 0 THEN 1 ELSE 10 * Pow10(e - 1)

(* Decimals with an exponent: [c, e] is c * 10^e units. *)
Dec(c, e) == [c |-> c, e |-> e]
DecZero == Dec(0, 0)
DecValue(t) == RInt(t.c * Pow10(t.e))
DecIsZero(t) == t.c = 0
DecPositive(t) == t.c > 0

\* Decimal.normalize(): strips the trailing zeros of the coefficient.
RECURSIVE normalize(_)
normalize(t) ==
    IF t.c = 0 THEN DecZero
    ELSE IF t.c % 10 = 0 THEN normalize(Dec(t.c \div 10, t.e + 1))
    ELSE t

\* The quantum Decimal.quantize(t) rounds to: 10^(exponent of t).
Quantum(t) == Pow10(t.e)

\* n/d (d > 0) rounded to an integer under a decimal rounding mode.
RoundInt(n, d, mode) ==
    LET fl == n \div d
        ce == -((-n) \div d)
    IN  CASE mode = "ROUND_FLOOR"   -> fl
          [] mode = "ROUND_CEILING" -> ce
          [] mode = "ROUND_DOWN"    -> IF n >= 0 THEN fl ELSE ce
          [] mode = "ROUND_HALF_UP" ->
                IF n >= 0 THEN (2 * n + d) \div (2 * d)
                ELSE -((2 * (-n) + d) \div (2 * d))

\* Variant: ROUND_CEILING always goes to the next quantum, from a value
\* already on the grid too.
quantize_ceiling_steps(x, t, mode) ==
    IF mode = "ROUND_CEILING"
    THEN RInt((RoundInt(x.n, x.d * Quantum(t), "ROUND_FLOOR") + 1) * Quantum(t))
    ELSE RInt(RoundInt(x.n, x.d * Quantum(t), mode) * Quantum(t))

\* x.quantize(t, rounding=mode)
quantize(x, t, mode) == RInt(RoundInt(x.n, x.d * Quantum(t), mode) * Quantum(t))

RoundingModes == {"ROUND_DOWN", "ROUND_CEILING", "ROUND_FLOOR", "ROUND_HALF_UP"}

-----------------------------------------------------------------------------
(* The quantizer. *)

\* The inline pattern "if self.tick_size > 0: price.quantize(self.tick_size,
\* rounding=mode) else: price" of the handlers.
quantize_price(price, mode) ==
    IF DecPositive(tick_size) THEN quantize(price, tick_size, mode) ELSE price

adjust_price(price) ==
    IF DecIsZero(tick_size) THEN price
    ELSE quantize(price, tick_size, "ROUND_DOWN")

\* Variant: quantizes whatever the step size, a step of 0 included.
adjust_quantity_unguarded(quantity) == quantize(quantity, step_size, "ROUND_DOWN")

\* Variant: rounds up to the next step.
adjust_quantity_rounds_up(quantity) ==
    IF DecIsZero(step_size) THEN quantity
    ELSE quantize(quantity, step_size, "ROUND_CEILING")

adjust_quantity(quantity) ==
    IF DecIsZero(step_size) THEN quantity
    ELSE quantize(quantity, step_size, "ROUND_DOWN")

-----------------------------------------------------------------------------
(* Target price. *)

\* Raises decimal.DivisionByZero / InvalidOperation when leverage is 0.
calculate_target_price(entry_price, leverage, target_roi_percent, p_type, fee_rate) ==
    LET target_roi == RDiv(target_roi_percent, RInt(100))
    IN  IF p_type = "long"
        THEN RDiv(RMul(entry_price, RAdd(RAdd(ROne, RDiv(target_roi, leverage)), fee_rate)),
                  RSub(ROne, fee_rate))
        ELSE RDiv(RMul(entry_price, RSub(RSub(ROne, RDiv(target_roi, leverage)), fee_rate)),
                  RAdd(ROne, fee_rate))

\* Variant: the entry and exit fee rates swapped.
tm_target_price_fees_swapped(entry_price, leverage, target_roi_percent, p_type, taker_fee, maker_fee) ==
    LET target_roi == RDiv(target_roi_percent, RInt(100))
    IN  IF p_type = "long"
        THEN RDiv(RMul(entry_price, RAdd(RAdd(ROne, RDiv(target_roi, leverage)), maker_fee)),
                  RSub(ROne, taker_fee))
        ELSE RDiv(RMul(entry_price, RSub(RSub(ROne, RDiv(target_roi, leverage)), maker_fee)),
                  RAdd(ROne, taker_fee))

\* The T+M branch of calculate_and_display_target: taker entry, maker exit.
tm_target_price(entry_price, leverage, target_roi_percent, p_type, taker_fee, maker_fee) ==
    LET target_roi == RDiv(target_roi_percent, RInt(100))
    IN  IF p_type = "long"
        THEN RDiv(RMul(entry_price, RAdd(RAdd(ROne, RDiv(target_roi, leverage)), taker_fee)),
                  RSub(ROne, maker_fee))
        ELSE RDiv(RMul(entry_price, RSub(RSub(ROne, RDiv(target_roi, leverage)), taker_fee)),
                  RAdd(ROne, maker_fee))

\* The raw target price of calculate_and_display_target for a chosen position
\* type and a non-zero leverage, by fee mode (radio buttons).
raw_target_price(entry_price, leverage, target_roi_percent, p_type, mode, taker_fee, maker_fee) ==
    IF mode = "tm"
    THEN tm_target_price(entry_price, leverage, target_roi_percent, p_type, taker_fee, maker_fee)
    ELSE LET fee_rate == IF mode = "taker" THEN taker_fee ELSE maker_fee
         IN  calculate_target_price(entry_price, leverage, target_roi_percent, p_type, fee_rate)

\* Variant: the two rounding modes exchanged.
target_rounding_mode_exchanged(side) == IF side = "long" THEN "ROUND_FLOOR" ELSE "ROUND_CEILING"

\* Final rounding of a target price: ROUND_CEILING for long, ROUND_FLOOR otherwise.
target_rounding_mode(side) == IF side = "long" THEN "ROUND_CEILING" ELSE "ROUND_FLOOR"

\* Variant: the raw price is stored as it is.
adjusted_target_price_skipped(tick, target_price, p_type) == target_price

\* The adjustment of a computed target price (display and nTP alike).
adjusted_target_price(tick, target_price, p_type) ==
    IF DecPositive(tick)
    THEN quantize(target_price, tick, target_rounding_mode(p_type))
    ELSE target_price

-----------------------------------------------------------------------------
(* Leverage brackets. *)

Tier(floor, cap, lev) == [notionalFloor |-> floor, notionalCap |-> cap, initialLeverage |-> lev]

\* Variant: the range read as [floor, cap).
tier_matches_floor_inclusive(tier, desired_notional) ==
    /\ RLe(RInt(tier.notionalFloor), desired_notional)
    /\ RLt(desired_notional, RInt(tier.notionalCap))

\* The test of the loop of get_adjusted_max_notional.
tier_matches(tier, desired_notional) ==
    /\ RLt(RInt(tier.notionalFloor), desired_notional)
    /\ RLe(desired_notional, RInt(tier.notionalCap))

\* Index of the tier at which the loop stops (it breaks or returns at the
\* first match), 0 when it runs to the end.
RECURSIVE matched_tier(_, _, _)
matched_tier(brackets, i, desired_notional) ==
    IF i > Len(brackets) THEN 0
    ELSE IF tier_matches(brackets[i], desired_notional) THEN i
    ELSE matched_tier(brackets, i + 1, desired_notional)

\* Variant: the leverage is capped but the notional is not recomputed.
get_adjusted_max_notional_keeps_notional(desired_notional, selected_leverage) ==
    IF Len(leverage_brackets) = 0 THEN <<desired_notional, selected_leverage>>
    ELSE LET i == matched_tier(leverage_brackets, 1, desired_notional)
         IN  IF i = 0 THEN <<desired_notional, selected_leverage>>
             ELSE LET allowed_leverage == RInt(leverage_brackets[i].initialLeverage)
                  IN  IF RLt(allowed_leverage, selected_leverage)
                      THEN <<desired_notional, allowed_leverage>>
                      ELSE <<desired_notional, selected_leverage>>

\* Variant: the notional is recomputed but the selected leverage is returned.
get_adjusted_max_notional_keeps_leverage(desired_notional, selected_leverage) ==
    IF Len(leverage_brackets) = 0 THEN <<desired_notional, selected_leverage>>
    ELSE LET i == matched_tier(leverage_brackets, 1, desired_notional)
         IN  IF i = 0 THEN <<desired_notional, selected_leverage>>
             ELSE LET allowed_leverage == RInt(leverage_brackets[i].initialLeverage)
                  IN  IF RLt(allowed_leverage, selected_leverage)
                      THEN <<RMul(available_balance, allowed_leverage), selected_leverage>>
                      ELSE <<desired_notional, selected_leverage>>

get_adjusted_max_notional(desired_notional, selected_leverage) ==
    IF Len(leverage_brackets) = 0 THEN <<desired_notional, selected_leverage>>
    ELSE LET i == matched_tier(leverage_brackets, 1, desired_notional)
         IN  IF i = 0 THEN <<desired_notional, selected_leverage>>
             ELSE LET allowed_leverage == RInt(leverage_brackets[i].initialLeverage)
                  IN  IF RLt(allowed_leverage, selected_leverage)
                      THEN <<RMul(available_balance, allowed_leverage), allowed_leverage>>
                      ELSE <<desired_notional, selected_leverage>>

-----------------------------------------------------------------------------
(* Inputs of the model.  Prices are counted in units of 0.01, quantities in *)
(* units of 0.001, notionals and balances in whole USDT.                     *)

Symbols == {"BTCUSDT", "ETHUSDT"}
DefaultSymbol == "BTCUSDT"

\* tickSize strings an exchange may send: "0.10", "0.01", "0.5", "1".
TickSizeStrings == {Dec(10, 0), Dec(1, 0), Dec(5, 1), Dec(1, 2)}
\* stepSize strings an exchange may send: "0.001", "0.01", "0.10", "0.005".
StepSizeStrings == {Dec(1, 0), Dec(1, 1), Dec(10, 1), Dec(5, 0)}

\* Config defaults: maker 0.0002, taker 0.0004.
maker_fee_rate == Rat(2, 10000)
taker_fee_rate == Rat(4, 10000)

\* The bracket table of the specification's example.
ExampleBrackets == <<Tier(0, 50000, 125), Tier(50000, 250000, 100), Tier(250000, 1000000, 50)>>

NoPosition == [positionAmt |-> RZero, entryPrice |-> RZero]
\* start_worker: a listener for the symbol on a thread of its own.  running
\* is the flag its loop tests; in_recv says that the recv it awaits may
\* still complete (one more message after stop()); restart says that
\* start_worker is connected to the thread's finished signal.
start_worker(symbol) ==
    [symbol |-> symbol, alive |-> TRUE, running |-> TRUE, in_recv |-> TRUE,
     restart |-> FALSE]

\* stop_worker: worker.stop() and worker_thread.quit(); the thread ends once
\* the listener's loop has seen the flag.
stop_worker(w) ==
    IF w.alive THEN [w EXCEPT !.running = FALSE] ELSE w

NumLabels == 5
NoData == [s |-> "none", a |-> <<>>, b |-> <<>>]
NoLabels == [i \in 1..NumLabels |-> "N/A"]

NoOp == [op |-> "none", calc |-> "none", ntp |-> "none", derived |-> <<>>, escaped |-> FALSE]
Idle == [kind |-> "idle"]

\* The widgets as initUI leaves them and the attributes as __init__ sets them,
\* before the first balance and symbol-info fetch.
InitWidgets ==
    /\ current_selected_symbol = DefaultSymbol
    /\ position_type = "none"
    /\ entry_price_input = RZero
    /\ leverage_input = RInt(10)
    /\ roi_input = RInt(10)
    /\ quantity_input = RInt(1)
    /\ quantity_slider = 50
    /\ fee_mode = "taker"
    /\ target_price_label = "NA"
    /\ calculated_target_price_decimal = None
    /\ calculated_ntp_decimal = None
    /\ best_ask_price = RZero
    /\ best_bid_price = RZero
    /\ latest_order_book_data = NoData
    /\ ask_price_labels = NoLabels
    /\ bid_price_labels = NoLabels
    /\ worker = start_worker(DefaultSymbol)
    /\ data_received = <<>>
    /\ last = NoOp

-----------------------------------------------------------------------------
(* Direct calls of the quantizer, over every fetched tick and step size. *)

MaxProbeValue == 60
ProbeDenominators == {1, 3, 7}
ProbeValues == {Rat(n, d) : n \in 1..MaxProbeValue, d \in ProbeDenominators}

InitQuant ==
    /\ InitWidgets
    /\ tick_size \in {normalize(s) : s \in TickSizeStrings} \cup {DecZero}
    /\ step_size \in StepSizeStrings \cup {DecZero}
    /\ leverage_brackets = <<>>
    /\ available_balance = RZero
    /\ exchange_position = [s \in Symbols |-> NoPosition]
    /\ exchange_balance = available_balance
    /\ probe = Idle

ProbeQuantizePrice ==
    /\ probe = Idle
    /\ \E p \in ProbeValues, mode \in RoundingModes :
        /\ probe' = [kind |-> "price", in |-> p, mode |-> mode,
                     out |-> IF mode = "ROUND_DOWN" THEN adjust_price(p)
                             ELSE quantize_price(p, mode)]
        /\ UNCHANGED <<appvars, last>>

ProbeAdjustQuantity ==
    /\ probe = Idle
    /\ \E q \in ProbeValues :
        /\ probe' = [kind |-> "quantity", in |-> q, mode |-> "ROUND_DOWN",
                     out |-> adjust_quantity(q)]
        /\ UNCHANGED <<appvars, last>>

\* A value that came out of the quantizer is put through it again, with the
\* same tick or step size and any rounding mode.
ProbeQuantizeAgain ==
    /\ probe.kind \in {"price", "quantity"}
    /\ \E mode \in RoundingModes :
        /\ probe' = [kind |-> "again", of |-> probe.kind, first |-> probe.mode,
                     in |-> probe.out, mode |-> mode,
                     out |-> IF probe.kind = "price"
                             THEN IF mode = "ROUND_DOWN" THEN adjust_price(probe.out)
                                  ELSE quantize_price(probe.out, mode)
                             ELSE IF mode = "ROUND_DOWN" THEN adjust_quantity(probe.out)
                                  ELSE IF DecPositive(step_size)
                                       THEN quantize(probe.out, step_size, mode)
                                       ELSE probe.out]
        /\ UNCHANGED <<appvars, last>>

IsMultipleOf(x, t) == IsInteger(x) /\ x.n % (t.c * Pow10(t.e)) = 0

\* C5: for a positive price p and a tick size t > 0, Down(p) <= p <= Ceiling(p),
\* Down(p) and Ceiling(p) are integer multiples of t, and HalfUp(p) is within
\* t/2 of p; the same for quantities and the step size.
C5_MonotonicContainment ==
    /\ (probe.kind = "price" /\ DecPositive(tick_size)) =>
          /\ probe.mode = "ROUND_DOWN" =>
                RLe(probe.out, probe.in) /\ IsMultipleOf(probe.out, tick_size)
          /\ probe.mode = "ROUND_CEILING" =>
                RLe(probe.in, probe.out) /\ IsMultipleOf(probe.out, tick_size)
          /\ probe.mode = "ROUND_HALF_UP" =>
                RLe(RMul(RInt(2), RAbs(RSub(probe.out, probe.in))), DecValue(tick_size))
    /\ (probe.kind = "quantity" /\ DecPositive(step_size)) =>
          RLe(probe.out, probe.in) /\ IsMultipleOf(probe.out, step_size)

\* The part of C5 that does not depend on the granularity: direction and
\* distance (not a claim's formula; kept to show what the quantizer does keep).
QuantizerDirection ==
    (probe.kind = "price" /\ DecPositive(tick_size)) =>
          /\ probe.mode = "ROUND_DOWN" => RLe(probe.out, probe.in)
          /\ probe.mode = "ROUND_CEILING" => RLe(probe.in, probe.out)
          /\ probe.mode = "ROUND_HALF_UP" =>
                RLe(RMul(RInt(2), RAbs(RSub(probe.out, probe.in))), DecValue(tick_size))

\* C19: with tick_size = 0 the price comes back from the quantization
\* unchanged, whatever the rounding mode and in the grid's loop too; with
\* step_size = 0 the quantity comes back unchanged.
C19_ZeroSizePassThrough ==
    /\ (probe.kind = "price" /\ DecIsZero(tick_size)) => probe.out = probe.in
    /\ (probe.kind = "quantity" /\ DecIsZero(step_size)) => probe.out = probe.in
    /\ (probe.kind = "slot" /\ DecIsZero(tick_size)) =>
          probe.out.price = probe.out.raw_price /\ probe.out.price = probe.in
    /\ (probe.kind = "slot" /\ DecIsZero(step_size)) =>
          probe.out.quantity = probe.out.raw_quantity

\* With no tick size fetched, 20/3 went through the half-up rounding and
\* came back as 20/3.
C19_Witness ==
    /\ probe.kind = "price"
    /\ DecIsZero(tick_size)
    /\ probe.mode = "ROUND_HALF_UP"
    /\ probe.in = Rat(20, 3)
    /\ probe.out = Rat(20, 3)

\* C20: a price or quantity that came out of the quantizer and is quantized
\* again with the same tick or step size comes back unchanged, under any
\* rounding mode.
C20_QuantizeIdempotent ==
    probe.kind = "again" => probe.out = probe.in

\* 47/3 was rounded down to a tick of 0.10 and the result put through the
\* ceiling rounding: it stayed.
C20_Witness ==
    /\ probe.kind = "again"
    /\ probe.of = "price"
    /\ tick_size = Dec(1, 1)
    /\ probe.first = "ROUND_DOWN"
    /\ probe.mode = "ROUND_CEILING"
    /\ probe.in = RInt(10)
    /\ probe.out = RInt(10)

-----------------------------------------------------------------------------
(* Direct calls of the notional capper. *)

ProbeBalances == {RInt(0), RInt(400), RInt(5000), RInt(12000)}
ProbeNotionals == {RInt(0), RInt(1), RInt(40000), RInt(50000), RInt(50001),
                   RInt(250000), RInt(600000), RInt(1000000), RInt(1000001)}
ProbeLeverages == {1, 50, 51, 100, 101, 125}
\* A table whose maximum leverage rises with the notional (no exchange table
\* seen does; futures_leverage_bracket is not checked for it).
RisingBrackets == <<Tier(0, 45000, 20), Tier(45000, 250000, 100)>>
ProbeTables == {<<>>, ExampleBrackets, RisingBrackets}

InitCap ==
    /\ InitWidgets
    /\ tick_size = DecZero
    /\ step_size = DecZero
    /\ leverage_brackets \in ProbeTables
    /\ available_balance \in ProbeBalances
    /\ exchange_position = [s \in Symbols |-> NoPosition]
    /\ exchange_balance = available_balance
    /\ probe = Idle

ProbeCap ==
    \E desired \in ProbeNotionals, lev \in ProbeLeverages :
        /\ probe = Idle
        /\ probe' = [kind |-> "cap", desired |-> desired, leverage |-> RInt(lev),
                     tier |-> matched_tier(leverage_brackets, 1, desired),
                     out |-> get_adjusted_max_notional(desired, RInt(lev))]
        /\ UNCHANGED <<appvars, last>>

\* The notional the quantity handlers ask for (their max_usdt_value).
balance_notional(leverage) == RMul(available_balance, leverage)

\* The capper as set_max_quantity, set_super_max_quantity and the slider
\* handlers call it.
ProbeCapOfBalance ==
    \E lev \in ProbeLeverages :
        /\ probe = Idle
        /\ probe' = [kind |-> "cap", desired |-> balance_notional(RInt(lev)),
                     leverage |-> RInt(lev),
                     tier |-> matched_tier(leverage_brackets, 1, balance_notional(RInt(lev))),
                     out |-> get_adjusted_max_notional(balance_notional(RInt(lev)), RInt(lev))]
        /\ UNCHANGED <<appvars, last>>

NextCap == ProbeCap \/ ProbeCapOfBalance

SpecCap == InitCap /\ [][NextCap]_vars

\* Tiers whose half-open range [floor, cap) holds the notional.
TiersFloorInclusive(desired) ==
    {i \in 1..Len(leverage_brackets) :
        /\ RLe(RInt(leverage_brackets[i].notionalFloor), desired)
        /\ RLt(desired, RInt(leverage_brackets[i].notionalCap))}

\* Tiers whose half-open range (floor, cap] holds the notional.
TiersCapInclusive(desired) ==
    {i \in 1..Len(leverage_brackets) :
        /\ RLt(RInt(leverage_brackets[i].notionalFloor), desired)
        /\ RLe(desired, RInt(leverage_brackets[i].notionalCap))}

\* C9 as stated: the capper applies the tier with floor <= notional < cap
\* (a notional on a boundary b belongs to the tier whose floor is b); when no
\* tier holds it, or the table is empty, the inputs come back unchanged.
C9_FloorInclusive ==
    probe.kind = "cap" =>
        LET holding == TiersFloorInclusive(probe.desired)
        IN  /\ holding # {} => probe.tier \in holding
            /\ holding = {} =>
                  probe.tier = 0 /\ probe.out = <<probe.desired, probe.leverage>>

\* C9 amended: the capper applies the tier with floor < notional <= cap (a
\* notional on a boundary b belongs to the tier whose cap is b, a notional of
\* 0 to no tier); when no tier holds it, or the table is empty, the inputs
\* come back unchanged.
C9_CapInclusive ==
    probe.kind = "cap" =>
        LET holding == TiersCapInclusive(probe.desired)
        IN  /\ holding # {} => probe.tier \in holding
            /\ holding = {} =>
                  probe.tier = 0 /\ probe.out = <<probe.desired, probe.leverage>>

\* A notional exactly on the boundary 50000 was looked up and fell into the
\* first tier, whose cap it is.
C9_Witness ==
    /\ probe.kind = "cap"
    /\ probe.desired = RInt(50000)
    /\ probe.tier = 1
    /\ leverage_brackets[probe.tier].notionalCap = 50000

\* C10: for the tier matching the notional, a selected leverage above the
\* tier's maximum gives (available_balance * max_leverage, max_leverage), any
\* other selected leverage gives the inputs back unchanged.
C10_CapOrUnchanged ==
    probe.kind = "cap" =>
        \A i \in TiersCapInclusive(probe.desired) :
            LET max_leverage == leverage_brackets[i].initialLeverage
            IN  IF probe.leverage.n > max_leverage * probe.leverage.d
                THEN probe.out = <<Rat(available_balance.n * max_leverage,
                                       available_balance.d), RInt(max_leverage)>>
                ELSE probe.out = <<probe.desired, probe.leverage>>

\* The example of the specification: 600000 at 100x falls into the 50x tier.
C10_Witness ==
    /\ probe.kind = "cap"
    /\ probe.desired = RInt(600000)
    /\ probe.leverage = RInt(100)
    /\ probe.tier = 3
    /\ probe.out[2] = RInt(50)
    /\ available_balance = RInt(12000)
    /\ probe.out[1] = RInt(600000)

\* The maximum leverage does not rise from a tier to the next.
LeverageNonIncreasing ==
    \A i \in 1..Len(leverage_brackets), j \in 1..Len(leverage_brackets) :
        i < j => leverage_brackets[i].initialLeverage >= leverage_brackets[j].initialLeverage

\* The returned leverage is within the maximum of every tier whose range
\* (floor, cap] holds the returned notional.
WithinCoveringTier ==
    \A i \in TiersCapInclusive(probe.out[1]) :
        RLe(probe.out[2], RInt(leverage_brackets[i].initialLeverage))

\* C11 as stated: for every desired notional, selected leverage, balance and
\* bracket table, the leverage the capper returns is at most the maximum
\* leverage of the tier that holds the notional it returns.
C11_CapNeverExceeded ==
    probe.kind = "cap" => WithinCoveringTier

\* C11 amended: when the desired notional is available_balance times the
\* selected leverage (what every caller passes) and the table's maximum
\* leverage does not rise with the notional, the leverage the capper returns
\* is at most the maximum leverage of the tier (floor, cap] that holds the
\* notional it returns.
C11_CapOfBalanceNeverExceeded ==
    (/\ probe.kind = "cap"
     /\ probe.desired = RMul(available_balance, probe.leverage)
     /\ LeverageNonIncreasing) => WithinCoveringTier

\* 5000 at 125x asks for 625000, is capped to 50x and 250000, which the
\* second tier (100x) holds.
C11_Witness ==
    /\ probe.kind = "cap"
    /\ available_balance = RInt(5000)
    /\ probe.leverage = RInt(125)
    /\ probe.desired = RInt(625000)
    /\ probe.out = <<RInt(250000), RInt(50)>>
    /\ TiersCapInclusive(probe.out[1]) = {2}

-----------------------------------------------------------------------------
(* Direct calls of the target price calculation, as the body of             *)
(* calculate_and_display_target makes them once its inputs are valid.       *)

ProbeEntryPrices == {RInt(1), RInt(1000), RInt(1003), RInt(30000)}
ProbeTargetLeverages == {1, 3, 10, 125}
\* Target ROI in percent: 0.5, 10, 20, 1000.
ProbeRois == {Rat(1, 2), RInt(10), RInt(20), RInt(1000)}
\* <<taker, maker>> fee rates in [0, 1).
ProbeFees == {<<taker_fee_rate, maker_fee_rate>>, <<RZero, RZero>>,
              <<Rat(1, 2), Rat(1, 4)>>, <<Rat(1, 100), Rat(9, 10)>>}
Sides == {"long", "short"}
FeeModes == {"maker", "taker", "tm"}

InitTarget ==
    /\ InitWidgets
    /\ tick_size \in {normalize(s) : s \in TickSizeStrings} \cup {DecZero}
    /\ step_size = DecZero
    /\ leverage_brackets = <<>>
    /\ available_balance = RZero
    /\ exchange_position = [s \in Symbols |-> NoPosition]
    /\ exchange_balance = available_balance
    /\ probe = Idle

ProbeTarget ==
    \E entry \in ProbeEntryPrices, lev \in ProbeTargetLeverages, roi \in ProbeRois,
       side \in Sides, mode \in FeeModes, fees \in ProbeFees :
        LET raw == raw_target_price(entry, RInt(lev), roi, side, mode, fees[1], fees[2])
        IN  /\ probe = Idle
            /\ probe' = [kind |-> "target", entry_price |-> entry, leverage |-> lev,
                         target_roi_percent |-> roi, side |-> side, mode |-> mode,
                         taker_fee |-> fees[1], maker_fee |-> fees[2],
                         raw |-> raw, adjusted |-> adjusted_target_price(tick_size, raw, side)]
            /\ UNCHANGED <<appvars, last>>

\* Variant: the entry fee is left out of the numerator.
calculator_target_price_without_entry_fee(entry_price, leverage, target_roi_percent, p_type, fee_rate) ==
    LET target_roi == RDiv(target_roi_percent, RInt(100))
    IN  IF p_type = "long"
        THEN [raised |-> FALSE,
              value |-> RDiv(RMul(entry_price, RAdd(ROne, RDiv(target_roi, leverage))),
                             RSub(ROne, fee_rate))]
        ELSE IF p_type = "short"
        THEN [raised |-> FALSE,
              value |-> RDiv(RMul(entry_price, RSub(ROne, RDiv(target_roi, leverage))),
                             RAdd(ROne, fee_rate))]
        ELSE [raised |-> TRUE, value |-> None]

\* calculate_target_price of calculator.py, the stand-alone calculator.  It
\* computes in binary floating point; the model computes the exact quotient,
\* from which the float result differs by a relative error below 1E-15 per
\* operation.  Any position type but long and short raises ValueError.
calculator_target_price(entry_price, leverage, target_roi_percent, p_type, fee_rate) ==
    LET target_roi == RDiv(target_roi_percent, RInt(100))
    IN  IF p_type = "long"
        THEN [raised |-> FALSE,
              value |-> RDiv(RMul(entry_price, RAdd(RAdd(ROne, RDiv(target_roi, leverage)), fee_rate)),
                             RSub(ROne, fee_rate))]
        ELSE IF p_type = "short"
        THEN [raised |-> FALSE,
              value |-> RDiv(RMul(entry_price, RSub(RSub(ROne, RDiv(target_roi, leverage)), fee_rate)),
                             RAdd(ROne, fee_rate))]
        ELSE [raised |-> TRUE, value |-> None]

ProbeCalculator ==
    /\ probe = Idle
    /\ \E entry \in ProbeEntryPrices, lev \in ProbeTargetLeverages, roi \in ProbeRois,
          p_type \in Sides \cup {"none"}, fees \in ProbeFees :
        /\ probe' = [kind |-> "calculator", entry_price |-> entry, leverage |-> lev,
                     target_roi_percent |-> roi, position_type |-> p_type,
                     fee_rate |-> fees[1],
                     out |-> calculator_target_price(entry, RInt(lev), roi, p_type, fees[1])]
        /\ UNCHANGED <<appvars, last>>

NextTarget == ProbeTarget \/ ProbeCalculator

SpecTarget == InitTarget /\ [][NextTarget]_vars

FeeEntry(p) == IF p.mode = "maker" THEN p.maker_fee ELSE p.taker_fee
FeeExit(p) == IF p.mode = "taker" THEN p.taker_fee ELSE p.maker_fee

\* target_roi / leverage, with target_roi = target_roi_percent / 100
RoiOverLeverage(p) == Rat(p.target_roi_percent.n, p.target_roi_percent.d * 100 * p.leverage)

\* C6: raw = entry * (1 + roi/leverage + fee_entry) / (1 - fee_exit) for long and
\* entry * (1 - roi/leverage - fee_entry) / (1 + fee_exit) for short, with
\* fee_entry = fee_exit = the selected rate in Maker or Taker mode and
\* fee_entry = taker, fee_exit = maker in the blended mode.  Stated without a
\* division: raw * (1 -/+ fee_exit) = entry * (1 +/- roi/leverage +/- fee_entry).
C6_RawTargetFormula ==
    probe.kind = "target" =>
        IF probe.side = "long"
        THEN RMul(probe.raw, RSub(ROne, FeeExit(probe)))
               = RMul(probe.entry_price,
                      RAdd(ROne, RAdd(RoiOverLeverage(probe), FeeEntry(probe))))
        ELSE RMul(probe.raw, RAdd(ROne, FeeExit(probe)))
               = RMul(probe.entry_price,
                      RSub(ROne, RAdd(RoiOverLeverage(probe), FeeEntry(probe))))

\* A blended-mode long target with different entry and exit rates was computed.
C6_Witness ==
    /\ probe.kind = "target"
    /\ probe.mode = "tm"
    /\ probe.side = "long"
    /\ probe.taker_fee = taker_fee_rate
    /\ probe.maker_fee = maker_fee_rate
    /\ probe.entry_price = RInt(30000)
    /\ RLt(probe.entry_price, probe.raw)

\* C7: with entry_price > 0, leverage > 0, fee rates in [0, 1) and a target
\* ROI > 0, the target price, raw and after its Ceiling / Floor quantization,
\* is strictly above the entry price for long and strictly below it for short.
C7_TargetPriceSign ==
    (probe.kind = "target" /\ probe.target_roi_percent.n > 0) =>
        IF probe.side = "long"
        THEN RLt(probe.entry_price, probe.raw) /\ RLt(probe.entry_price, probe.adjusted)
        ELSE RLt(probe.raw, probe.entry_price) /\ RLt(probe.adjusted, probe.entry_price)

\* A long target a fraction of a tick above an entry price that lies on the
\* tick grid was rounded up, away from the entry price.
C7_Witness ==
    /\ probe.kind = "target"
    /\ probe.side = "long"
    /\ DecPositive(tick_size)
    /\ IsMultipleOf(probe.entry_price, tick_size)
    /\ RLt(probe.raw, RAdd(probe.entry_price, DecValue(tick_size)))
    /\ RLt(probe.raw, probe.adjusted)

-----------------------------------------------------------------------------
(* The application: the handlers of BinanceCalculatorApp.  A handler is an   *)
(* operator from the record of the attributes and widgets it may write to    *)
(* the record it leaves, the slots it triggers applied inside it (Qt calls   *)
(* connected slots synchronously).  The fields calc, ntp, derived and        *)
(* escaped of the record are not program state: they note what the handler  *)
(* did (derived: the quantities it computed, raw and as written).           *)

State ==
    [current_selected_symbol |-> current_selected_symbol,
     tick_size |-> tick_size, step_size |-> step_size,
     leverage_brackets |-> leverage_brackets,
     available_balance |-> available_balance,
     position_type |-> position_type,
     entry_price_input |-> entry_price_input,
     leverage_input |-> leverage_input,
     roi_input |-> roi_input,
     quantity_input |-> quantity_input,
     quantity_slider |-> quantity_slider,
     fee_mode |-> fee_mode,
     target_price_label |-> target_price_label,
     calculated_target_price_decimal |-> calculated_target_price_decimal,
     calculated_ntp_decimal |-> calculated_ntp_decimal,
     worker |-> worker,
     calc |-> "none", ntp |-> "none", derived |-> <<>>, escaped |-> FALSE,
     cascade |-> <<>>]

Commit(s) ==
    /\ current_selected_symbol' = s.current_selected_symbol
    /\ tick_size' = s.tick_size
    /\ step_size' = s.step_size
    /\ leverage_brackets' = s.leverage_brackets
    /\ available_balance' = s.available_balance
    /\ position_type' = s.position_type
    /\ entry_price_input' = s.entry_price_input
    /\ leverage_input' = s.leverage_input
    /\ roi_input' = s.roi_input
    /\ quantity_input' = s.quantity_input
    /\ quantity_slider' = s.quantity_slider
    /\ fee_mode' = s.fee_mode
    /\ target_price_label' = s.target_price_label
    /\ calculated_target_price_decimal' = s.calculated_target_price_decimal
    /\ calculated_ntp_decimal' = s.calculated_ntp_decimal
    /\ worker' = s.worker

\* What a handler did, for the record kept in last.
Did(name, s) ==
    [op |-> name, calc |-> s.calc, ntp |-> s.ntp, derived |-> s.derived,
     escaped |-> s.escaped, cascade |-> s.cascade]

RPositive(x) == x.n > 0

\* Variant: the inputs are not validated before the target price is stored.
target_inputs_invalid_unchecked(entry_price, leverage, target_price) == FALSE

\* The validity test of calculate_and_display_target.
target_inputs_invalid(entry_price, leverage, target_price) ==
    \/ ~RPositive(entry_price)
    \/ ~RPositive(leverage)
    \/ ~RPositive(target_price)

\* calculate_and_display_target: the slot of the entry price, leverage and ROI
\* fields and of the fee radio buttons.  A leverage of 0 makes the division
\* raise; the handler's except clause turns that into the N/A display.
calculate_and_display_target(s) ==
    IF IsEmpty(s.entry_price_input) \/ IsEmpty(s.leverage_input) \/ IsEmpty(s.roi_input)
    THEN [s EXCEPT !.calc = "returned"]
    ELSE IF s.position_type # "none" /\ s.leverage_input.n = 0
    THEN [s EXCEPT !.target_price_label = "NA", !.calc = "error"]
    ELSE IF s.position_type = "none"
    THEN [s EXCEPT !.target_price_label = "NA", !.calc = "na"]
    ELSE LET target_price == raw_target_price(s.entry_price_input, s.leverage_input,
                                 s.roi_input, s.position_type, s.fee_mode,
                                 taker_fee_rate, maker_fee_rate)
         IN  IF target_inputs_invalid(s.entry_price_input, s.leverage_input, target_price)
             THEN [s EXCEPT !.target_price_label = "INVALID", !.calc = "invalid"]
             ELSE LET adjusted_price ==
                          adjusted_target_price(s.tick_size, target_price, s.position_type)
                  IN  [s EXCEPT !.calculated_target_price_decimal = adjusted_price,
                                !.target_price_label = "PRICE",
                                !.calc = "produced"]

\* QLineEdit.setText / typing: textChanged fires only when the text changes.
set_entry_price_text(s, text) ==
    IF text = s.entry_price_input THEN s
    ELSE calculate_and_display_target([s EXCEPT !.entry_price_input = text])

set_leverage_text(s, text) ==
    IF text = s.leverage_input THEN s
    ELSE calculate_and_display_target(
             [s EXCEPT !.leverage_input = text,
                       !.cascade = Append(@, "leverage_input.textChanged")])

set_roi_text(s, text) ==
    IF text = s.roi_input THEN s
    ELSE calculate_and_display_target([s EXCEPT !.roi_input = text])

set_position_type(s, p_type) ==
    calculate_and_display_target([s EXCEPT !.position_type = p_type])

format_entry_price(s) ==
    IF IsEmpty(s.entry_price_input) THEN s
    ELSE LET adjusted_price ==
                 IF DecPositive(s.tick_size)
                 THEN quantize(s.entry_price_input, s.tick_size, "ROUND_HALF_UP")
                 ELSE s.entry_price_input
         IN  set_entry_price_text(s, adjusted_price)

\* The nTP of update_position_status: taker entry, maker exit.
nTP_price(entry_price, leverage, target_roi_percent, position_side) ==
    tm_target_price(entry_price, leverage, target_roi_percent, position_side,
                    taker_fee_rate, maker_fee_rate)

PositionSide(p) == IF RPositive(p.positionAmt) THEN "long" ELSE "short"

\* update_position_status, on the position timer and after every order.
\* api_ok = FALSE: the position query raised.
update_position_status(s, api_ok) ==
    IF ~api_ok THEN [s EXCEPT !.ntp = "kept"]
    ELSE LET p == exchange_position[s.current_selected_symbol]
         IN  IF p.positionAmt.n = 0
             THEN [s EXCEPT !.calculated_ntp_decimal = None, !.ntp = "cleared"]
             ELSE LET leverage == IF IsEmpty(s.leverage_input) THEN RZero
                                  ELSE s.leverage_input
                  IN  IF IsEmpty(s.roi_input) \/ ~RPositive(leverage)
                                              \/ ~RPositive(s.roi_input)
                      THEN [s EXCEPT !.ntp = "kept"]
                      ELSE LET nTP == nTP_price(p.entryPrice, leverage, s.roi_input,
                                                PositionSide(p))
                               adjusted_ntp ==
                                   adjusted_target_price(s.tick_size, nTP, PositionSide(p))
                           IN  [s EXCEPT !.calculated_ntp_decimal = adjusted_ntp,
                                         !.ntp = "produced"]

\* update_asset_balance: the balance the exchange reports, or on a failed
\* query the old one.
update_asset_balance(s, api_ok) ==
    IF api_ok THEN [s EXCEPT !.available_balance = exchange_balance] ELSE s

\* manual_refresh_data: balance, position status (and the open-order list,
\* which holds no state of the model).
manual_refresh_data(s, balance_ok, position_ok) ==
    update_position_status(update_asset_balance(s, balance_ok), position_ok)

-----------------------------------------------------------------------------
(* Grid orders and the limit close. *)

\* Number of trailing zero digits of a positive integer.
RECURSIVE TrailingZeros(_)
TrailingZeros(n) == IF n = 0 \/ n % 10 # 0 THEN 0 ELSE 1 + TrailingZeros(n \div 10)

\* Exponent of Decimal.normalize() of a value counted in units of
\* 10^-places: trailing zeros of the coefficient are stripped and the
\* exponent raised by as many; zero normalizes to exponent 0; a value finer
\* than the unit has an exponent below -places.
normalized_exponent(v, places) ==
    IF v.n = 0 THEN 0
    ELSE IF v.d # 1 THEN -(places + 1)
    ELSE TrailingZeros(Abs(v.n)) - places

\* What str() of a Decimal prints: digits with a decimal point when the
\* exponent is <= 0 (and the value not below 1E-6, as all values here), the
\* form dE+n when the exponent is positive.
decimal_str(exponent) ==
    [type |-> "str", notation |-> IF exponent > 0 THEN "exponent" ELSE "fixed"]

\* str(x.normalize()) as the order handlers write it.
str_normalize(v, places) == decimal_str(normalized_exponent(v, places))

\* x.normalize() passed as it is: a Decimal object.
decimal_object(v, places) ==
    [type |-> "Decimal",
     notation |-> IF normalized_exponent(v, places) > 0 THEN "exponent" ELSE "fixed"]

\* abs(float(positionAmt)) passed as it is: a float.
float_object == [type |-> "float", notation |-> "fixed"]

\* A MARKET order carries no price.
no_argument == [type |-> "none", notation |-> "none"]

\* Variant: the two entry modes exchanged.
grid_rounding_mode_entry_exchanged(order_type, p_type) ==
    IF order_type = "entry"
    THEN IF p_type = "long" THEN "ROUND_CEILING" ELSE "ROUND_DOWN"
    ELSE "ROUND_HALF_UP"

\* The rounding mode place_order_logic picks for a slot price.
grid_rounding_mode(order_type, p_type) ==
    IF order_type = "entry"
    THEN IF p_type = "long" THEN "ROUND_DOWN" ELSE "ROUND_CEILING"
    ELSE "ROUND_HALF_UP"

\* Variant: every slot is given the whole quantity.
grid_slot_whole_quantity(order_type, p_type, center_price, total_quantity, grid_count, grid_interval, i) ==
    LET price_interval == RMul(grid_interval, DecValue(tick_size))
        start_offset == RNeg(Rat(grid_count - 1, 2))
        price_offset == RMul(RAdd(start_offset, RInt(i)), price_interval)
        price == RAdd(center_price, price_offset)
        adjusted_price ==
            IF DecPositive(tick_size)
            THEN quantize(price, tick_size, grid_rounding_mode(order_type, p_type))
            ELSE price
    IN  [raw_price |-> price, price |-> adjusted_price,
         raw_quantity |-> total_quantity,
         quantity |-> adjust_quantity(total_quantity)]

\* Variant: the first slot lies grid_count / 2 intervals below the center.
grid_slot_offset_of_count(order_type, p_type, center_price, total_quantity, grid_count, grid_interval, i) ==
    LET quantity_per_order == RDiv(total_quantity, RInt(grid_count))
        price_interval == RMul(grid_interval, DecValue(tick_size))
        start_offset == RNeg(Rat(grid_count, 2))
        price_offset == RMul(RAdd(start_offset, RInt(i)), price_interval)
        price == RAdd(center_price, price_offset)
        adjusted_price ==
            IF DecPositive(tick_size)
            THEN quantize(price, tick_size, grid_rounding_mode(order_type, p_type))
            ELSE price
    IN  [raw_price |-> price, price |-> adjusted_price,
         raw_quantity |-> quantity_per_order,
         quantity |-> adjust_quantity(quantity_per_order)]

\* Variant: for an even count the first slot lies count / 2 intervals below
\* the center, so that one slot falls on the center.
grid_slot_even_count_aligned(order_type, p_type, center_price, total_quantity, grid_count, grid_interval, i) ==
    LET quantity_per_order == RDiv(total_quantity, RInt(grid_count))
        price_interval == RMul(grid_interval, DecValue(tick_size))
        start_offset == RNeg(RInt(grid_count \div 2))
        price_offset == RMul(RAdd(start_offset, RInt(i)), price_interval)
        price == RAdd(center_price, price_offset)
        adjusted_price ==
            IF DecPositive(tick_size)
            THEN quantize(price, tick_size, grid_rounding_mode(order_type, p_type))
            ELSE price
    IN  [raw_price |-> price, price |-> adjusted_price,
         raw_quantity |-> quantity_per_order,
         quantity |-> adjust_quantity(quantity_per_order)]

\* Variant: an interval of 0 is taken as one tick.
grid_slot_minimum_interval(order_type, p_type, center_price, total_quantity, grid_count, grid_interval, i) ==
    LET quantity_per_order == RDiv(total_quantity, RInt(grid_count))
        price_interval == RMul(IF grid_interval = RZero THEN ROne ELSE grid_interval,
                               DecValue(tick_size))
        start_offset == RNeg(Rat(grid_count - 1, 2))
        price_offset == RMul(RAdd(start_offset, RInt(i)), price_interval)
        price == RAdd(center_price, price_offset)
        adjusted_price ==
            IF DecPositive(tick_size)
            THEN quantize(price, tick_size, grid_rounding_mode(order_type, p_type))
            ELSE price
    IN  [raw_price |-> price, price |-> adjusted_price,
         raw_quantity |-> quantity_per_order,
         quantity |-> adjust_quantity(quantity_per_order)]

\* Slot i (from 0) of the grid: its price before and after rounding, and the
\* per-order quantity before and after adjust_quantity.
grid_slot(order_type, p_type, center_price, total_quantity, grid_count, grid_interval, i) ==
    LET quantity_per_order == RDiv(total_quantity, RInt(grid_count))
        price_interval == RMul(grid_interval, DecValue(tick_size))
        start_offset == RNeg(Rat(grid_count - 1, 2))
        price_offset == RMul(RAdd(start_offset, RInt(i)), price_interval)
        price == RAdd(center_price, price_offset)
        adjusted_price ==
            IF DecPositive(tick_size)
            THEN quantize(price, tick_size, grid_rounding_mode(order_type, p_type))
            ELSE price
    IN  [raw_price |-> price, price |-> adjusted_price,
         raw_quantity |-> quantity_per_order,
         quantity |-> adjust_quantity(quantity_per_order)]

\* Variant: a target order takes the side of an entry order.
grid_side_of_entry(order_type, p_type) ==
    IF p_type = "long" THEN "BUY" ELSE "SELL"

grid_side(order_type, p_type) ==
    IF order_type = "entry"
    THEN IF p_type = "long" THEN "BUY" ELSE "SELL"
    ELSE IF p_type = "long" THEN "SELL" ELSE "BUY"

\* Variant: no slot is skipped (the loop of the revisions up to blc8).
slot_skipped_never(quantity) == FALSE

\* The test at the head of the submission loop: a slot whose quantity is not
\* positive is logged and skipped.
slot_skipped(quantity) == ~RPositive(quantity)

\* Variant: the first refused order ends the loop.
slot_reached_until_failure(k, failing) == \A j \in failing : j >= k

\* The try/except lies inside the loop: an order the exchange refuses is
\* appended to failed_orders and the loop goes on, so every slot is reached.
slot_reached(k, failing) == TRUE

NoOrders == [s |-> State, accepted |-> FALSE, center_price |-> None, orders |-> <<>>,
             success_count |-> 0, failed_orders |-> {}, reported |-> <<>>]

\* The orders of the grid, slot by slot, and what the loop does with each:
\* sent (futures_create_order called) and ok (it returned).
grid_orders(order_type, center_price, grid_count, grid_interval, failing) ==
    [k \in 1..grid_count |->
        LET slot == grid_slot(order_type, position_type, center_price,
                              quantity_input, grid_count, grid_interval, k - 1)
            sent == slot_reached(k, failing) /\ ~slot_skipped(slot.quantity)
        IN  [raw_price |-> slot.raw_price, price |-> slot.price,
             raw_quantity |-> slot.raw_quantity, quantity |-> slot.quantity,
             price_arg |-> str_normalize(slot.price, 2),
             quantity_arg |-> str_normalize(slot.quantity, 3),
             side |-> grid_side(order_type, position_type),
             reduce_only |-> (order_type = "target"),
             sent |-> sent, ok |-> (sent /\ k \notin failing)]]

\* place_order_logic.  grid_count and grid_interval are the texts of the two
\* grid fields; failing holds the slots whose submission the exchange
\* refuses; balance_ok, position_ok: the queries of the refresh that follows
\* a success.
place_order_logic(order_type, grid_count, grid_interval, failing, balance_ok, position_ok) ==
    IF \/ IsEmpty(quantity_input)
       \/ position_type = "none"
       \/ grid_count < 1
       \/ (order_type = "entry" /\ IsEmpty(entry_price_input))
       \/ (order_type = "target" /\ IsEmpty(calculated_ntp_decimal))
       \/ ~RPositive(quantity_input)
    THEN NoOrders
    ELSE LET center_price == IF order_type = "entry" THEN entry_price_input
                             ELSE calculated_ntp_decimal
             submitted(orders) ==
                 LET success_count == Cardinality({k \in 1..grid_count : orders[k].ok})
                     failed_orders == {k \in 1..grid_count : orders[k].sent /\ ~orders[k].ok}
                 IN  [s |-> IF success_count > 0
                            THEN manual_refresh_data(State, balance_ok, position_ok)
                            ELSE State,
                      accepted |-> TRUE, center_price |-> center_price, orders |-> orders,
                      success_count |-> success_count, failed_orders |-> failed_orders,
                      reported |-> <<success_count, grid_count>>]
         IN  CHOOSE r \in {submitted(orders) : orders \in {grid_orders(order_type, center_price, grid_count, grid_interval, failing)}} : TRUE

NoClose == [s |-> State, outcome |-> "rejected", orders |-> <<>>]

\* place_limit_close_order.  position_ok: the position query succeeds;
\* order_ok: the exchange accepts the order.
place_limit_close_order(limit_price_text, quantity_text, position_ok, order_ok, balance_ok, refresh_ok) ==
    LET p == exchange_position[current_selected_symbol]
    IN  IF \/ ~position_ok
           \/ p.positionAmt.n = 0
           \/ IsEmpty(limit_price_text)
           \/ IsEmpty(quantity_text)
        THEN NoClose
        ELSE LET price == limit_price_text
                 adjusted_price == adjust_price(price)
                 quantity == IF quantity_text = MaxText THEN RAbs(p.positionAmt)
                             ELSE quantity_text
                 adjusted_quantity == adjust_quantity(quantity)
             IN  IF ~RPositive(price) \/ ~RPositive(quantity)
                               \/ RLt(RAbs(p.positionAmt), adjusted_quantity)
                 THEN NoClose
                 ELSE [s |-> IF order_ok
                             THEN manual_refresh_data(State, balance_ok, refresh_ok)
                             ELSE State,
                       outcome |-> IF order_ok THEN "placed" ELSE "refused",
                       orders |-> <<[position_side |-> PositionSide(p),
                                     side |-> IF PositionSide(p) = "long"
                                              THEN "SELL" ELSE "BUY",
                                     raw_price |-> price, price |-> adjusted_price,
                                     raw_quantity |-> quantity,
                                     quantity |-> adjusted_quantity,
                                     price_arg |-> str_normalize(adjusted_price, 2),
                                     quantity_arg |-> decimal_object(adjusted_quantity, 3),
                                     reduce_only |-> TRUE, sent |-> TRUE,
                                     ok |-> order_ok]>>]

\* emergency_market_close: a MARKET reduce-only order for every open
\* position of the account, then the open orders cancelled and a refresh.
\* positions_ok: the position query succeeds; failing: the symbols whose
\* order the exchange refuses.
emergency_market_close(positions_ok, failing, balance_ok, refresh_ok) ==
    LET open_positions == {symbol \in Symbols : exchange_position[symbol].positionAmt.n # 0}
    IN  IF ~positions_ok \/ open_positions = {}
        THEN [s |-> State, orders |-> <<>>]
        ELSE [s |-> manual_refresh_data(State, balance_ok, refresh_ok),
              orders |-> [symbol \in open_positions |->
                  LET position_amt == exchange_position[symbol].positionAmt
                  IN  [side |-> IF RPositive(position_amt) THEN "SELL" ELSE "BUY",
                       quantity |-> RAbs(position_amt),
                       price_arg |-> no_argument,
                       quantity_arg |-> float_object,
                       reduce_only |-> TRUE, sent |-> TRUE,
                       ok |-> symbol \notin failing]]]

-----------------------------------------------------------------------------
(* Quantity field, slider, Max and SuperMax. *)

\* The price the quantity handlers divide by: best ask (best bid for short),
\* else a positive entry price field, else none.
quantity_entry_price(s) ==
    LET book == IF s.position_type # "short" THEN best_ask_price ELSE best_bid_price
    IN  IF RPositive(book) THEN book
        ELSE IF ~IsEmpty(s.entry_price_input) /\ RPositive(s.entry_price_input)
             THEN s.entry_price_input
             ELSE None

\* adjusted_max_usdt_value / entry_price, the notional in USDT, the price in
\* units of 0.01 and the quantity in units of 0.001.
max_quantity(adjusted_max_usdt_value, entry_price) ==
    RDiv(RMul(RInt(100 * 1000), adjusted_max_usdt_value), entry_price)

\* int(max(0, min(100, percentage)))
slider_value_of(percentage) ==
    IF RLt(percentage, RZero) THEN 0
    ELSE IF RLt(RInt(100), percentage) THEN 100
    ELSE percentage.n \div percentage.d

\* Variant: update_slider_from_quantity without blockSignals, so that its
\* setValue emits valueChanged when the value changes.
slider_signal(s, value) ==
    IF value = s.quantity_slider THEN s
    ELSE [s EXCEPT !.quantity_slider = value,
                   !.cascade = Append(@, "quantity_slider.valueChanged")]

update_slider_from_quantity_unblocked(s) ==
    IF IsEmpty(s.leverage_input) THEN [s EXCEPT !.escaped = TRUE]
    ELSE LET leverage == s.leverage_input
             entry_price == quantity_entry_price(s)
         IN  IF IsEmpty(entry_price) THEN s
             ELSE LET max_usdt_value == RMul(s.available_balance, leverage)
                      capped == get_adjusted_max_notional(max_usdt_value, leverage)
                      s1 == IF leverage # capped[2]
                            THEN set_leverage_text(s, capped[2]) ELSE s
                      max_q == max_quantity(capped[1], entry_price)
                  IN  IF ~IsEmpty(s1.quantity_input) /\ RPositive(max_q)
                      THEN slider_signal(s1, slider_value_of(
                               RMul(RDiv(s1.quantity_input, max_q), RInt(100))))
                      ELSE slider_signal(s1, 0)

\* update_slider_from_quantity, the slot of the quantity field; the slider's
\* signals are blocked while it runs.  An empty leverage field makes Decimal()
\* raise InvalidOperation, which the except clause does not name.
update_slider_from_quantity(s) ==
    IF IsEmpty(s.leverage_input) THEN [s EXCEPT !.escaped = TRUE]
    ELSE LET leverage == s.leverage_input
             entry_price == quantity_entry_price(s)
         IN  IF IsEmpty(entry_price) THEN s
             ELSE LET max_usdt_value == RMul(s.available_balance, leverage)
                      capped == get_adjusted_max_notional(max_usdt_value, leverage)
                      s1 == IF leverage # capped[2]
                            THEN set_leverage_text(s, capped[2]) ELSE s
                      max_q == max_quantity(capped[1], entry_price)
                  IN  IF ~IsEmpty(s1.quantity_input) /\ RPositive(max_q)
                      THEN [s1 EXCEPT !.quantity_slider = slider_value_of(
                               RMul(RDiv(s1.quantity_input, max_q), RInt(100)))]
                      ELSE [s1 EXCEPT !.quantity_slider = 0]

set_quantity_text(s, text) ==
    IF text = s.quantity_input THEN s
    ELSE update_slider_from_quantity(
             [s EXCEPT !.quantity_input = text,
                       !.cascade = Append(@, "quantity_input.textChanged")])

\* derive_quantity dividing available_balance * leverage itself by the price.
derive_quantity_uncapped(s, name, percentage, mode) ==
    IF IsEmpty(s.leverage_input) \/ ~RPositive(s.available_balance) THEN s
    ELSE LET leverage == s.leverage_input
             entry_price == quantity_entry_price(s)
         IN  IF IsEmpty(entry_price) THEN s
             ELSE LET max_usdt_value == RMul(s.available_balance, leverage)
                      capped == get_adjusted_max_notional(max_usdt_value, leverage)
                      s1 == IF leverage # capped[2]
                            THEN set_leverage_text(s, capped[2]) ELSE s
                      target_quantity == RMul(max_quantity(max_usdt_value, entry_price),
                                              Rat(percentage, 100))
                      quantity == IF name = "slider" THEN adjust_quantity(target_quantity)
                                  ELSE IF DecPositive(step_size)
                                  THEN quantize(target_quantity, step_size, mode)
                                  ELSE target_quantity
                      s2 == [s1 EXCEPT !.derived = Append(@,
                                [by |-> name, raw |-> target_quantity, out |-> quantity,
                                 leverage |-> leverage, entry_price |-> entry_price,
                                 percentage |-> percentage])]
                  IN  set_quantity_text(s2, IF RPositive(quantity) THEN quantity ELSE RZero)

\* The body shared by update_quantity_from_slider, set_max_quantity and
\* set_super_max_quantity after the slider is set: cap the notional, divide
\* by the price, take the percentage, round with the handler's mode and write
\* the quantity field.
derive_quantity(s, name, percentage, mode) ==
    IF IsEmpty(s.leverage_input) \/ ~RPositive(s.available_balance) THEN s
    ELSE LET leverage == s.leverage_input
             entry_price == quantity_entry_price(s)
         IN  IF IsEmpty(entry_price) THEN s
             ELSE LET max_usdt_value == RMul(s.available_balance, leverage)
                      capped == get_adjusted_max_notional(max_usdt_value, leverage)
                      s1 == IF leverage # capped[2]
                            THEN set_leverage_text(s, capped[2]) ELSE s
                      target_quantity == RMul(max_quantity(capped[1], entry_price),
                                              Rat(percentage, 100))
                      quantity == IF name = "slider" THEN adjust_quantity(target_quantity)
                                  ELSE IF DecPositive(step_size)
                                  THEN quantize(target_quantity, step_size, mode)
                                  ELSE target_quantity
                      s2 == [s1 EXCEPT !.derived = Append(@,
                                [by |-> name, raw |-> target_quantity, out |-> quantity,
                                 leverage |-> leverage, entry_price |-> entry_price,
                                 percentage |-> percentage])]
                  IN  set_quantity_text(s2, IF RPositive(quantity) THEN quantity ELSE RZero)

\* update_quantity_from_slider, the slot of the slider: adjust_quantity.
update_quantity_from_slider(s) ==
    derive_quantity(s, "slider", s.quantity_slider, "ROUND_DOWN")

\* QSlider.setValue: valueChanged fires only when the value changes.
set_slider_value(s, value) ==
    IF value = s.quantity_slider THEN s
    ELSE update_quantity_from_slider(
             [s EXCEPT !.quantity_slider = value,
                       !.cascade = Append(@, "quantity_slider.valueChanged")])

set_max_quantity(s) ==
    derive_quantity(set_slider_value(s, 100), "max", 100, "ROUND_DOWN")

set_super_max_quantity(s) ==
    derive_quantity(set_slider_value(s, 100), "super_max", 100, "ROUND_HALF_UP")

-----------------------------------------------------------------------------
(* Symbol metadata. *)

\* What the exchange holds for each symbol: tickSize "0.10" and stepSize
\* "0.001" for BTCUSDT, "0.01" and "0.01" for ETHUSDT, and a bracket table.
ExchangeInfo ==
    [sym \in Symbols |->
        IF sym = "BTCUSDT"
        THEN [tickSize |-> Dec(10, 0), stepSize |-> Dec(1, 0),
              brackets |-> <<Tier(0, 5000, 125), Tier(5000, 25000, 100)>>]
        ELSE [tickSize |-> Dec(1, 0), stepSize |-> Dec(1, 1),
              brackets |-> <<Tier(0, 5000, 100), Tier(5000, 25000, 50)>>]]

FetchOutcomes == {"ok", "info_error", "bracket_error", "not_found"}

\* fetch_symbol_info.  outcome: both queries answer ("ok"), the exchange-info
\* query raises ("info_error"), the bracket query raises after the sizes
\* were set ("bracket_error"), or both answer without the symbol: no entry
\* of info['symbols'] matches and the bracket list is empty ("not_found").
fetch_symbol_info(s, outcome) ==
    LET info == ExchangeInfo[s.current_selected_symbol]
    IN  IF outcome = "not_found" THEN s
        ELSE IF outcome # "ok"
        THEN [s EXCEPT !.tick_size = DecZero, !.step_size = DecZero]
        ELSE LET s1 == [s EXCEPT !.tick_size = normalize(info.tickSize),
                                 !.step_size = info.stepSize,
                                 !.leverage_brackets = info.brackets]
                 max_leverage == RInt(info.brackets[1].initialLeverage)
             IN  IF ~IsEmpty(s1.leverage_input) /\ RLt(max_leverage, s1.leverage_input)
                 THEN set_leverage_text(s1, max_leverage)
                 ELSE s1

on_symbol_changed(s, symbol, outcome, position_ok) ==
    LET s1 == [s EXCEPT !.current_selected_symbol = symbol]
        s2 == IF s1.worker.alive
              THEN [s1 EXCEPT !.worker = stop_worker([s1.worker EXCEPT !.restart = TRUE])]
              ELSE [s1 EXCEPT !.worker = start_worker(symbol)]
    IN  update_position_status(fetch_symbol_info(s2, outcome), position_ok)

-----------------------------------------------------------------------------
(* The actions: one per user gesture, timer tick and exchange event. *)

MaxGridCount == 2
GridCountTexts == 0..MaxGridCount
GridIntervalTexts == {RInt(1)}
LimitPriceTexts == {RInt(2003)}
LimitQuantityTexts == {MaxText, RInt(9)}
SliderValues == {33, 100}
\* The depth messages of each symbol's stream: the symbol, the asks from the
\* best (lowest) up and the bids from the best (highest) down, each level a
\* price in units of 0.01 and a quantity in units of 0.001.
OrderBooks(symbol) ==
    IF symbol = DefaultSymbol
    THEN {[s |-> symbol,
           a |-> <<<<RInt(2007), RInt(5)>>, <<RInt(2008), RInt(2)>>>>,
           b |-> <<<<RInt(1999), RInt(4)>>, <<RInt(1998), RInt(1)>>>>]}
    ELSE {[s |-> symbol,
           a |-> <<<<RInt(157), RInt(3)>>, <<RInt(158), RZero>>>>,
           b |-> <<<<RInt(155), RInt(6)>>>>]}
Positions == {NoPosition,
              [positionAmt |-> RInt(5), entryPrice |-> RInt(1999)],
              [positionAmt |-> RInt(-5), entryPrice |-> RInt(1999)]}

Stream == <<data_received, latest_order_book_data, ask_price_labels, bid_price_labels>>
Env == <<exchange_position, exchange_balance, best_ask_price, best_bid_price, Stream, probe>>

EditEntryPrice(texts) ==
    \E text \in texts :
        \E s \in {set_entry_price_text(State, text)} :
            /\ text # entry_price_input
            /\ Commit(s)
            /\ last' = Did("edit_entry_price", s)
            /\ UNCHANGED Env

FormatEntryPrice ==
    \E s \in {format_entry_price(State)} :
        /\ Commit(s)
        /\ last' = Did("format_entry_price", s)
        /\ UNCHANGED Env

EditLeverage(texts) ==
    \E text \in texts :
        \E s \in {set_leverage_text(State, text)} :
            /\ text # leverage_input
            /\ Commit(s)
            /\ last' = Did("edit_leverage", s)
            /\ UNCHANGED Env

EditRoi(texts) ==
    \E text \in texts :
        \E s \in {set_roi_text(State, text)} :
            /\ text # roi_input
            /\ Commit(s)
            /\ last' = Did("edit_roi", s)
            /\ UNCHANGED Env

EditQuantity(texts) ==
    \E text \in texts :
        \E s \in {set_quantity_text(State, text)} :
            /\ text # quantity_input
            /\ Commit(s)
            /\ last' = Did("edit_quantity", s)
            /\ UNCHANGED Env

SetPositionType ==
    \E p_type \in Sides :
        \E s \in {set_position_type(State, p_type)} :
            /\ Commit(s)
            /\ last' = Did("set_position_type", s)
            /\ UNCHANGED Env

\* A radio button toggled: the slot runs on the settled group.
SelectFeeMode ==
    \E mode \in FeeModes :
        \E s \in {calculate_and_display_target([State EXCEPT !.fee_mode = mode])} :
            /\ mode # fee_mode
            /\ Commit(s)
            /\ last' = Did("select_fee_mode", s)
            /\ UNCHANGED Env

PositionTimer ==
    \E position_ok \in BOOLEAN :
        \E s \in {update_position_status(State, position_ok)} :
            /\ Commit(s)
            /\ last' = Did("update_position_status", s)
            /\ UNCHANGED Env

SymbolChanged ==
    \E symbol \in Symbols, outcome \in FetchOutcomes, position_ok \in BOOLEAN :
        \E s \in {on_symbol_changed(State, symbol, outcome, position_ok)} :
            /\ symbol # current_selected_symbol
            /\ Commit(s)
            /\ last' = Did("on_symbol_changed", s)
            /\ UNCHANGED Env

PlaceOrder ==
    \E order_type \in {"entry", "target"}, grid_count \in GridCountTexts,
       grid_interval \in GridIntervalTexts, failing \in {{}, {1}} :
        \E r \in {place_order_logic(order_type, grid_count, grid_interval, failing, TRUE, TRUE)} :
            /\ failing \subseteq 1..grid_count
            /\ Commit(r.s)
            /\ last' = [op |-> "place_order", calc |-> r.s.calc, ntp |-> r.s.ntp,
                        derived |-> r.s.derived, escaped |-> r.s.escaped,
                        order_type |-> order_type, accepted |-> r.accepted,
                        requested |-> grid_count, center_price |-> r.center_price,
                        orders |-> r.orders, failed_orders |-> r.failed_orders,
                        reported |-> r.reported,
                        success_count |-> r.success_count]
            /\ UNCHANGED Env

PlaceLimitClose ==
    \E limit_price_text \in LimitPriceTexts, quantity_text \in LimitQuantityTexts,
       position_ok \in BOOLEAN, order_ok \in BOOLEAN :
        \E r \in {place_limit_close_order(limit_price_text, quantity_text, position_ok, order_ok, TRUE, TRUE)} :
            /\ Commit(r.s)
            /\ last' = [op |-> "limit_close", calc |-> r.s.calc, ntp |-> r.s.ntp,
                        derived |-> r.s.derived, escaped |-> r.s.escaped,
                        quantity_text |-> quantity_text,
                        outcome |-> r.outcome, orders |-> r.orders]
            /\ UNCHANGED Env

EmergencyClose ==
    \E positions_ok \in BOOLEAN, failing \in {{}, {DefaultSymbol}} :
        \E r \in {emergency_market_close(positions_ok, failing, TRUE, TRUE)} :
            /\ Commit(r.s)
            /\ last' = [op |-> "emergency_close", calc |-> r.s.calc, ntp |-> r.s.ntp,
                        derived |-> r.s.derived, escaped |-> r.s.escaped,
                        orders |-> r.orders]
            /\ UNCHANGED Env

MoveSlider ==
    \E value \in SliderValues :
        \E s \in {set_slider_value(State, value)} :
            /\ value # quantity_slider
            /\ Commit(s)
            /\ last' = Did("move_slider", s)
            /\ UNCHANGED Env

SetMaxQuantity ==
    \E s \in {set_max_quantity(State)} :
        /\ Commit(s)
        /\ last' = Did("set_max_quantity", s)
        /\ UNCHANGED Env

SetSuperMaxQuantity ==
    \E s \in {set_super_max_quantity(State)} :
        /\ Commit(s)
        /\ last' = Did("set_super_max_quantity", s)
        /\ UNCHANGED Env

\* buffer_order_book_data: a depth message with a best ask and a best bid.
buffer_order_book_data(data) ==
    [latest_order_book_data |-> data,
     best_ask_price |-> IF Len(data.a) > 0 THEN data.a[1][1] ELSE best_ask_price,
     best_bid_price |-> IF Len(data.b) > 0 THEN data.b[1][1] ELSE best_bid_price]

Buffered(data) ==
    \E r \in {buffer_order_book_data(data)} :
        /\ latest_order_book_data' = r.latest_order_book_data
        /\ best_ask_price' = r.best_ask_price
        /\ best_bid_price' = r.best_bid_price
        /\ last' = [op |-> "buffer_order_book_data", calc |-> "none", ntp |-> "none",
                    derived |-> <<>>, escaped |-> FALSE]
        /\ Commit(State)
        /\ UNCHANGED <<exchange_position, exchange_balance, probe,
                       ask_price_labels, bid_price_labels>>

\* A depth message of the running listener, emitted and delivered with
\* nothing else in flight.
BufferOrderBook ==
    /\ worker.alive /\ worker.running
    /\ data_received = <<>>
    /\ \E data \in OrderBooks(worker.symbol) : Buffered(data)
    /\ UNCHANGED data_received

\* The exchange fills or closes a position of some symbol.
PositionChange(symbols) ==
    \E symbol \in symbols, p \in Positions :
        /\ exchange_position[symbol] # p
        /\ exchange_position' = [exchange_position EXCEPT ![symbol] = p]
        /\ last' = [op |-> "exchange", calc |-> "none", ntp |-> "none",
                    derived |-> <<>>, escaped |-> FALSE]
        /\ Commit(State)
        /\ UNCHANGED <<exchange_balance, best_ask_price, best_bid_price, Stream, probe>>

-----------------------------------------------------------------------------------------------------------------------------------------------------
(* The order machine: one symbol, an account whose available balance is 0   *)
(* and a stream that has delivered no order book yet.                       *)

\* __init__: initUI, then update_asset_balance and fetch_symbol_info for the
\* default symbol, each of which may fail.
InitRules(outcome) ==
    LET info == ExchangeInfo[DefaultSymbol]
    IN  /\ tick_size = IF outcome = "ok" THEN normalize(info.tickSize) ELSE DecZero
        /\ step_size = IF outcome = "ok" THEN info.stepSize ELSE DecZero
        /\ leverage_brackets = IF outcome = "ok" THEN info.brackets ELSE <<>>

Init ==
    /\ InitWidgets
    /\ \E outcome \in FetchOutcomes : InitRules(outcome)
    /\ exchange_balance = RZero
    /\ available_balance = RZero
    /\ exchange_position = [sym \in Symbols |-> NoPosition]
    /\ probe = Idle

Next ==
    \/ EditEntryPrice({RInt(2003)})
    \/ FormatEntryPrice
    \/ EditLeverage({RZero, RInt(10)})
    \/ EditQuantity({Rat(1, 2), RInt(7)})
    \/ SetPositionType
    \/ PositionTimer
    \/ PlaceOrder
    \/ PlaceLimitClose
    \/ EmergencyClose
    \/ PositionChange({DefaultSymbol})

Spec == Init /\ [][Next]_vars

-----------------------------------------------------------------------------
(* The display machine: the target price shown while the fields, the fee    *)
(* mode and the symbol change.                                              *)

NextDisplay ==
    \/ EditEntryPrice({RZero, RInt(2003)})
    \/ EditLeverage({RZero, RInt(10), RInt(125)})
    \/ EditRoi({Empty, RInt(10)})
    \/ SetPositionType
    \/ SelectFeeMode
    \/ SymbolChanged

SpecDisplay == Init /\ [][NextDisplay]_vars

-----------------------------------------------------------------------------
(* The quantity machine: one symbol, a funded account, a live order book.   *)

InitQuantity ==
    /\ InitWidgets
    /\ \E outcome \in {"ok", "info_error"} : InitRules(outcome)
    /\ exchange_balance = RInt(100)
    /\ available_balance \in {RZero, exchange_balance}
    /\ exchange_position \in [Symbols -> Positions]
    /\ exchange_position["ETHUSDT"] = NoPosition
    /\ exchange_position[DefaultSymbol].positionAmt.n > 0
    /\ probe = Idle

NextQuantity ==
    \/ EditLeverage({RInt(10), RInt(125)})
    \/ EditQuantity({RInt(7)})
    \/ SetPositionType
    \/ MoveSlider
    \/ SetMaxQuantity
    \/ SetSuperMaxQuantity
    \/ BufferOrderBook
    \/ PlaceOrder
    \/ PlaceLimitClose

SpecQuantity == InitQuantity /\ [][NextQuantity]_vars

\* The quantizer on its own: direct calls, the grid's loop, and a second
\* pass over a quantized value.
\* One slot of a grid, computed by place_order_logic's loop.
ProbeGridSlot ==
    /\ probe = Idle
    /\ \E p \in ProbeValues, order_type \in {"entry", "target"}, p_type \in {"long", "short"},
          grid_count \in 1..MaxGridCount, grid_interval \in GridIntervalTexts :
        \E i \in 0..(grid_count - 1) :
            /\ probe' = [kind |-> "slot", in |-> p, order_type |-> order_type,
                         p_type |-> p_type,
                         out |-> grid_slot(order_type, p_type, p, p, grid_count,
                                           grid_interval, i)]
            /\ UNCHANGED <<appvars, last>>

NextQuant == ProbeQuantizePrice \/ ProbeAdjustQuantity \/ ProbeGridSlot \/ ProbeQuantizeAgain

SpecQuant == InitQuant /\ [][NextQuant]_vars

\* The grid of place_order_logic on its own, over center prices, counts and
\* intervals (the interval field takes decimals; a negative interval is
\* what the loop would be handed if the field's validator were bypassed).
MaxProbeGridCount == 3
ProbeCenters == {RInt(2003), Rat(47, 3)}
ProbeIntervals == {RInt(-2), RZero, RInt(1), Rat(5, 2)}

ProbeGrid ==
    /\ probe = Idle
    /\ \E center_price \in ProbeCenters, grid_count \in 1..MaxProbeGridCount,
          grid_interval \in ProbeIntervals,
          order_type \in {"entry", "target"}, p_type \in {"long", "short"} :
        /\ probe' = [kind |-> "grid", center_price |-> center_price,
                     grid_count |-> grid_count, grid_interval |-> grid_interval,
                     order_type |-> order_type, p_type |-> p_type,
                     slots |-> [k \in 1..grid_count |->
                                   grid_slot(order_type, p_type, center_price, RInt(7),
                                             grid_count, grid_interval, k - 1)]]
        /\ UNCHANGED <<appvars, last>>

NextGrid == ProbeGrid

SpecGrid == InitQuant /\ [][NextGrid]_vars

\* C21: slot i (from 0) of a grid lies, before rounding, at center_price +
\* (i - (grid_count - 1) / 2) * grid_interval * tick_size, for even counts
\* as for odd ones; so the middle slot of an odd count lies at center_price.
C21_SlotPriceFormula ==
    probe.kind = "grid" =>
        /\ \A k \in 1..probe.grid_count :
              probe.slots[k].raw_price =
                  RAdd(probe.center_price,
                       RMul(RSub(RInt(k - 1), Rat(probe.grid_count - 1, 2)),
                            RMul(probe.grid_interval, DecValue(tick_size))))
        /\ probe.grid_count % 2 = 1 =>
              probe.slots[(probe.grid_count + 1) \div 2].raw_price = probe.center_price

\* Three slots one tick of 0.10 apart around 20.03: 19.93, 20.03, 20.13
\* before rounding.
C21_Witness ==
    /\ probe.kind = "grid"
    /\ tick_size = Dec(1, 1)
    /\ probe.center_price = RInt(2003)
    /\ probe.grid_count = 3
    /\ probe.grid_interval = RInt(1)
    /\ probe.slots[1].raw_price = RInt(1993)
    /\ probe.slots[2].raw_price = RInt(2003)
    /\ probe.slots[3].raw_price = RInt(2013)

-----------------------------------------------------------------------------
(* Properties of the order, display and quantity machines.  Roundings are   *)
(* stated by what they mean, against the quantum 10^exponent that           *)
(* Decimal.quantize rounds to.                                              *)

OnGrid(v, q) == IsInteger(v) /\ v.n % q = 0
IsFloorOf(v, raw, q) == OnGrid(v, q) /\ RLe(v, raw) /\ RLt(raw, RAdd(v, RInt(q)))
IsCeilingOf(v, raw, q) == OnGrid(v, q) /\ RLe(raw, v) /\ RLt(RSub(v, RInt(q)), raw)
IsDownOf(v, raw, q) == IF raw.n >= 0 THEN IsFloorOf(v, raw, q) ELSE IsCeilingOf(v, raw, q)
IsHalfUpOf(v, raw, q) == OnGrid(v, q) /\ RLe(RMul(RInt(2), RAbs(RSub(v, raw))), RInt(q))

PlacedGrid(order_type) ==
    last.op = "place_order" /\ last.order_type = order_type /\ last.accepted

\* Every quantity the last handler derived: by Max, SuperMax or the slider,
\* per grid slot, or for the limit close.
QuantitiesDerived ==
    {[by |-> last.derived[i].by, raw |-> last.derived[i].raw, out |-> last.derived[i].out] :
        i \in DOMAIN last.derived}
    \cup (IF last.op \in {"place_order", "limit_close"}
          THEN {[by |-> last.op, raw |-> last.orders[k].raw_quantity,
                 out |-> last.orders[k].quantity] : k \in DOMAIN last.orders}
          ELSE {})

\* C1 as stated: with step_size > 0, every quantity derived by Max, SuperMax,
\* the slider, a grid slot or the limit close is the truncation of the raw
\* quantity, so never above it.
C1_AlwaysTruncated ==
    DecPositive(step_size) =>
        \A d \in QuantitiesDerived : IsDownOf(d.out, d.raw, Quantum(step_size))

\* C1 amended: with step_size > 0, the quantities derived by Max, the slider,
\* a grid slot and the limit close are truncations of the raw quantity;
\* SuperMax rounds half up and may exceed the raw quantity by at most half a
\* quantum.
C1_TruncatedExceptSuperMax ==
    DecPositive(step_size) =>
        \A d \in QuantitiesDerived :
            IF d.by = "super_max"
            THEN IsHalfUpOf(d.out, d.raw, Quantum(step_size))
            ELSE IsDownOf(d.out, d.raw, Quantum(step_size))

\* SuperMax wrote into the quantity field a quantity above the raw one.
C1_Witness ==
    /\ DecPositive(step_size)
    /\ last.op = "set_super_max_quantity"
    /\ \E d \in QuantitiesDerived :
          d.by = "super_max" /\ RLt(d.raw, d.out) /\ quantity_input = d.out

\* C2: with tick_size > 0, the price of every exit order (a submitted slot of
\* a target grid, the limit close) is the Ceiling of the price asked when the
\* position is long (the order sells) and the Floor when it is short.
C2_ExitCeilingFloor ==
    DecPositive(tick_size) =>
        /\ PlacedGrid("target") =>
              \A k \in DOMAIN last.orders :
                  LET o == last.orders[k]
                  IN  o.sent =>
                        IF o.side = "SELL"
                        THEN IsCeilingOf(o.price, o.raw_price, Quantum(tick_size))
                        ELSE IsFloorOf(o.price, o.raw_price, Quantum(tick_size))
        /\ last.op = "limit_close" =>
              \A k \in DOMAIN last.orders :
                  LET o == last.orders[k]
                  IN  IF o.position_side = "long"
                      THEN IsCeilingOf(o.price, o.raw_price, Quantum(tick_size))
                      ELSE IsFloorOf(o.price, o.raw_price, Quantum(tick_size))

\* C3: with tick_size > 0, the price of every slot of an entry grid is the
\* Down rounding of the slot's raw price when the position type is long and
\* the Ceiling when it is short.
C3_EntryDownCeiling ==
    (DecPositive(tick_size) /\ PlacedGrid("entry")) =>
        \A k \in DOMAIN last.orders :
            LET o == last.orders[k]
            IN  IF position_type = "long"
                THEN IsDownOf(o.price, o.raw_price, Quantum(tick_size))
                ELSE IsCeilingOf(o.price, o.raw_price, Quantum(tick_size))

\* A long entry order went out below its raw price, which lay off the grid.
C3_Witness ==
    /\ DecPositive(tick_size)
    /\ PlacedGrid("entry")
    /\ position_type = "long"
    /\ \E k \in DOMAIN last.orders :
          last.orders[k].ok /\ RLt(last.orders[k].price, last.orders[k].raw_price)

C8_InvalidInputOutcome ==
    [][(/\ last'.calc # "none"
        /\ (~RPositive(leverage_input') \/ ~RPositive(entry_price_input')))
       => /\ last'.calc \in {"returned", "error", "invalid", "na"}
          /\ calculated_target_price_decimal' = calculated_target_price_decimal
          /\ target_price_label' \in {"NA", "INVALID", target_price_label}
          /\ (last'.calc # "returned" => target_price_label' \in {"NA", "INVALID"})
          /\ ~last'.escaped]_vars

\* The handler ran with leverage 0 after a target price had been stored: the
\* division raised, the display went to N/A and the stored price stayed.
C8_Witness ==
    /\ last.calc = "error"
    /\ leverage_input = RZero
    /\ RPositive(entry_price_input)
    /\ target_price_label = "NA"
    /\ ~IsEmpty(calculated_target_price_decimal)

-----------------------------------------------------------------------------
(* The grid as a whole. *)

\* The slots of the last grid for which futures_create_order was called.
SubmittedSlots == {k \in DOMAIN last.orders : last.orders[k].sent}

\* Sum of the quantities of the slots 1..k that were submitted.
RECURSIVE SubmittedQuantity(_)
SubmittedQuantity(k) ==
    IF k = 0 THEN RZero
    ELSE RAdd(SubmittedQuantity(k - 1),
              IF last.orders[k].sent THEN last.orders[k].quantity ELSE RZero)

\* C12: with step_size > 0, the quantities of the slots of a grid that are
\* submitted sum to at most the requested total quantity and to more than
\* the total minus grid_count * step_size.
C12_GridMassConservation ==
    (last.op = "place_order" /\ last.accepted /\ DecPositive(step_size)) =>
        LET submitted == SubmittedQuantity(last.requested)
        IN  /\ RLe(submitted, quantity_input)
            /\ RLt(RSub(quantity_input, RMul(RInt(last.requested), DecValue(step_size))),
                   submitted)

\* A total of 0.007 over two slots at a step of 0.001: 0.003 each, 0.006 in
\* all.
C12_Witness ==
    /\ last.op = "place_order" /\ last.accepted
    /\ last.requested = 2
    /\ SubmittedSlots = {1, 2}
    /\ quantity_input = RInt(7)
    /\ step_size = Dec(1, 0)
    /\ SubmittedQuantity(2) = RInt(6)

\* The one slot of a grid of count 1 lies at the center price (offset 0) and
\* is given the whole quantity, both then rounded as for any slot.
SingleSlotAtCenter ==
    /\ DOMAIN last.orders = {1}
    /\ last.orders[1].raw_price = last.center_price
    /\ last.orders[1].price =
          (IF DecPositive(tick_size)
           THEN quantize(last.center_price, tick_size,
                         grid_rounding_mode(last.order_type, position_type))
           ELSE last.center_price)
    /\ last.orders[1].raw_quantity = quantity_input
    /\ last.orders[1].quantity = adjust_quantity(quantity_input)

\* C13 as stated: a grid of count 1 produces exactly one order, at the center
\* price (offset 0) and with the full total quantity.
C13_ExactlyOneOrder ==
    (last.op = "place_order" /\ last.accepted /\ last.requested = 1) =>
        SingleSlotAtCenter /\ SubmittedSlots = {1}

\* C13 amended: a grid of count 1 has exactly one slot, at the center price
\* (offset 0) and with the full total quantity, price and quantity rounded
\* as for any slot; its order is submitted unless the truncated quantity is
\* 0, and then no order is.
C13_OneSlotAtCenter ==
    (last.op = "place_order" /\ last.accepted /\ last.requested = 1) =>
        /\ SingleSlotAtCenter
        /\ SubmittedSlots = (IF RPositive(adjust_quantity(quantity_input)) THEN {1} ELSE {})

\* An entry grid of count 1 at 20.03 for 0.007: one order, at 20.00, for
\* 0.007.
C13_Witness ==
    /\ PlacedGrid("entry") /\ last.requested = 1
    /\ SubmittedSlots = {1}
    /\ last.center_price = RInt(2003)
    /\ last.orders[1].price = RInt(2000)
    /\ last.orders[1].quantity = RInt(7)

\* C14: a slot whose truncated quantity is 0 is never submitted and raises
\* no error, and the loop goes on: every slot with a positive quantity is
\* submitted.
C14_ZeroSlotsSkipped ==
    (last.op = "place_order" /\ last.accepted) =>
        /\ DOMAIN last.orders = 1..last.requested
        /\ \A k \in DOMAIN last.orders :
              /\ last.orders[k].quantity = RZero =>
                    ~last.orders[k].sent /\ ~last.orders[k].ok
              /\ RPositive(last.orders[k].quantity) => last.orders[k].sent
        /\ ~last.escaped

\* A total of 0.001 over two slots at a step of 0.001: both slots truncate
\* to 0, the loop passes over both and nothing is submitted.
C14_Witness ==
    /\ last.op = "place_order" /\ last.accepted
    /\ last.requested = 2
    /\ quantity_input = RInt(1)
    /\ \A k \in 1..2 : last.orders[k].quantity = RZero /\ ~last.orders[k].sent
    /\ last.success_count = 0
    /\ ~last.escaped

\* C15: every grid order is BUY for an entry on long and an exit on short,
\* SELL for an entry on short and an exit on long, and is reduce-only
\* exactly when it is an exit (target) order.
C15_SideAndReduceOnly ==
    (last.op = "place_order" /\ last.accepted) =>
        \A k \in DOMAIN last.orders :
            /\ (last.order_type = "entry" /\ position_type = "long") =>
                  last.orders[k].side = "BUY"
            /\ (last.order_type = "target" /\ position_type = "short") =>
                  last.orders[k].side = "BUY"
            /\ (last.order_type = "entry" /\ position_type = "short") =>
                  last.orders[k].side = "SELL"
            /\ (last.order_type = "target" /\ position_type = "long") =>
                  last.orders[k].side = "SELL"
            /\ last.orders[k].reduce_only <=> (last.order_type = "target")

\* A target grid on the short side was submitted: BUY, reduce-only.
C15_Witness ==
    /\ PlacedGrid("target")
    /\ position_type = "short"
    /\ last.requested = 2
    /\ \A k \in 1..2 : /\ last.orders[k].sent
                       /\ last.orders[k].side = "BUY"
                       /\ last.orders[k].reduce_only

\* The slots of the last grid whose truncated quantity is 0.
ZeroQuantitySlots == {k \in DOMAIN last.orders : last.orders[k].quantity = RZero}

\* C16: an order the exchange refuses never keeps a later slot from being
\* submitted; after the loop the successes, the failures and the
\* zero-quantity skips add up to grid_count, and the result is reported as
\* success_count out of grid_count.
C16_FailureDoesNotStopGrid ==
    (last.op = "place_order" /\ last.accepted) =>
        /\ \A j \in last.failed_orders : \A k \in DOMAIN last.orders :
              (j < k /\ RPositive(last.orders[k].quantity)) => last.orders[k].sent
        /\ last.success_count + Cardinality(last.failed_orders)
              + Cardinality(ZeroQuantitySlots) = last.requested
        /\ last.success_count = Cardinality({k \in DOMAIN last.orders : last.orders[k].ok})
        /\ last.reported = <<last.success_count, last.requested>>

\* The first of two orders was refused and the second was still submitted
\* and accepted: 1 of 2.
C16_Witness ==
    /\ last.op = "place_order" /\ last.accepted
    /\ last.requested = 2
    /\ last.failed_orders = {1}
    /\ last.orders[2].sent /\ last.orders[2].ok
    /\ last.reported = <<1, 2>>
    /\ ZeroQuantitySlots = {}

-----------------------------------------------------------------------------
(* Exit requests against the open position. *)

\* Size of the open position of the selected symbol.
PositionSize == RAbs(exchange_position[current_selected_symbol].positionAmt)

\* C17: a limit close or a target grid whose requested quantity exceeds the
\* size of the open position is rejected before any order is built.
C17_ExitBeyondPositionRejected ==
    /\ (/\ last.op = "limit_close"
        /\ last.quantity_text # MaxText
        /\ RLt(PositionSize, last.quantity_text)) => last.orders = <<>>
    /\ (/\ last.op = "place_order"
        /\ last.order_type = "target"
        /\ ~IsEmpty(quantity_input)
        /\ RLt(PositionSize, quantity_input)) => last.orders = <<>>

\* What the limit close alone keeps: a quantity above the position is
\* turned down with no order built (not a claim's formula).
LimitCloseBeyondPositionRejected ==
    (/\ last.op = "limit_close"
     /\ last.quantity_text # MaxText
     /\ RLt(PositionSize, adjust_quantity(last.quantity_text)))
        => last.outcome = "rejected" /\ last.orders = <<>>

-----------------------------------------------------------------------------
(* What reaches futures_create_order. *)

\* The argument is a string of digits with at most one decimal point.
PlainDecimalString(arg) == arg.type = "str" /\ arg.notation = "fixed"

\* C18: every price and quantity handed to the order submission (grid
\* order, limit close, emergency close) is a plain fixed-point decimal
\* string: never a float, never another non-string object, never in
\* exponent notation.
C18_PlainDecimalStrings ==
    last.op \in {"place_order", "limit_close", "emergency_close"} =>
        \A k \in DOMAIN last.orders :
            last.orders[k].sent =>
                /\ PlainDecimalString(last.orders[k].quantity_arg)
                /\ last.orders[k].price_arg.type # "none" =>
                      PlainDecimalString(last.orders[k].price_arg)

\* The grid alone breaks it: an entry order at 20.00 was submitted with the
\* price written as "2E+1" (not a claim's formula).
GridPriceInExponentNotation ==
    /\ PlacedGrid("entry")
    /\ \E k \in DOMAIN last.orders :
          /\ last.orders[k].sent
          /\ last.orders[k].price = RInt(2000)
          /\ last.orders[k].price_arg = [type |-> "str", notation |-> "exponent"]

-----------------------------------------------------------------------------
(* Degenerate intervals of the grid. *)

\* Every slot of the probed grid has the price of the first, before and
\* after rounding.
SlotsCollapsed ==
    \A k \in 1..probe.grid_count :
        /\ probe.slots[k].raw_price = probe.slots[1].raw_price
        /\ probe.slots[k].price = probe.slots[1].price

-----------------------------------------------------------------------------
(* The stand-alone calculator on the example of the specification. *)

\* A positive rational cut to two decimals, counted in hundredths.
TruncatedToCents(x) == (x.n \div x.d) * 100 + ((x.n % x.d) * 100) \div x.d

\* The call of the example: entry 30000, leverage 10, ROI 20 %, long, fee
\* rate 0.0004.
CalculatorExample ==
    /\ probe.kind = "calculator"
    /\ probe.entry_price = RInt(30000)
    /\ probe.leverage = 10
    /\ probe.target_roi_percent = RInt(20)
    /\ probe.position_type = "long"
    /\ probe.fee_rate = Rat(4, 10000)

\* C22 as stated: the example gives a raw target price of about 30636.24,
\* 30636.24 when cut to two decimals.
C22_Example30636 ==
    CalculatorExample =>
        ~probe.out.raised /\ TruncatedToCents(probe.out.value) = 3063624

\* C22 amended: the example gives 30000 * 1.0204 / 0.9996 = 30624.2496...,
\* 30624.24 when cut to two decimals (30624.25 rounded).
C22_Example30624 ==
    CalculatorExample =>
        /\ ~probe.out.raised
        /\ probe.out.value = RDiv(RMul(RInt(30000), Rat(10204, 10000)), Rat(9996, 10000))
        /\ TruncatedToCents(probe.out.value) = 3062424

\* The example was computed: 25510000/833.
C22_Witness ==
    /\ CalculatorExample
    /\ probe.out.value = Rat(25510000, 833)

-----------------------------------------------------------------------------
(* The trading rules in force after symbol changes. *)

\* C24: after any sequence of symbol changes and metadata loads, failed
\* ones included, the tick size, the step size and the bracket table in
\* force are those of the selected symbol or the unknown / empty value;
\* never those of a symbol selected before.
C24_RulesOfSelectedSymbol ==
    LET info == ExchangeInfo[current_selected_symbol]
    IN  /\ tick_size \in {normalize(info.tickSize), DecZero}
        /\ step_size \in {info.stepSize, DecZero}
        /\ leverage_brackets \in {info.brackets, <<>>}

-----------------------------------------------------------------------------
(* The bracket cap in the quantity handlers. *)

\* What Max, SuperMax or the slider should have derived for the leverage,
\* price and percentage it read: the notional the capper returns for
\* available_balance * leverage, divided by the price, times the percentage.
QuantityOfAdjustedNotional(d) ==
    RMul(max_quantity(get_adjusted_max_notional(RMul(available_balance, d.leverage),
                                                d.leverage)[1],
                      d.entry_price),
         Rat(d.percentage, 100))

\* The bracket table allows less leverage than d.leverage for the notional
\* available_balance * d.leverage.
CapBinds(d) ==
    get_adjusted_max_notional(RMul(available_balance, d.leverage), d.leverage)[1]
        # RMul(available_balance, d.leverage)

\* C25: every quantity that Max, SuperMax or the slider derives from the
\* available balance is computed from the adjusted notional the capper
\* returns for available_balance * leverage, never from that product itself
\* where the two differ.
C25_QuantityFromAdjustedNotional ==
    \A i \in DOMAIN last.derived :
        last.derived[i].raw = QuantityOfAdjustedNotional(last.derived[i])

\* Max pressed with the slider already at 100, at leverage 125 with a balance
\* of 100: 12500 USDT lies in the tier that allows 100, so the quantity
\* comes from 10000 USDT and the leverage field is rewritten to 100.
C25_Witness ==
    /\ last.op = "set_max_quantity"
    /\ \E j \in DOMAIN last.derived :
          /\ last.derived[j].by = "max"
          /\ CapBinds(last.derived[j])
          /\ last.derived[j].leverage = RInt(125)
          /\ last.derived[j].raw = max_quantity(RInt(10000), last.derived[j].entry_price)
    /\ leverage_input = RInt(100)

-----------------------------------------------------------------------------
(* The prices of the grid. *)

\* C26: every grid order handed to the exchange has a strictly positive
\* price, whatever the center price, the count and the interval.
C26_SubmittedPricesPositive ==
    last.op = "place_order" =>
        \A k \in DOMAIN last.orders :
            last.orders[k].sent => RPositive(last.orders[k].price)

-----------------------------------------------------------------------------
(* The order-book machine: the listener thread, its messages on their way   *)
(* to the window, the buffer and the timer that renders it.                 *)

MaxQueued == 2

RECURSIVE Reversed(_)
Reversed(levels) ==
    IF levels = <<>> THEN <<>>
    ELSE Append(Reversed(Tail(levels)), Head(levels))

\* The digits update_order_book_ui prints after the point: those of the tick
\* size (an exponent counted in units of 0.01), 4 while it is unknown.
label_precision ==
    IF DecPositive(tick_size)
    THEN (IF 2 - tick_size.e > 0 THEN 2 - tick_size.e ELSE 0)
    ELSE 4

label_rows(levels) ==
    [i \in 1..NumLabels |->
        IF i <= Len(levels) /\ RPositive(levels[i][2])
        THEN [price |-> levels[i][1], quantity |-> levels[i][2],
              precision |-> label_precision]
        ELSE "N/A"]

\* update_order_book_ui(data): asks.reverse() reverses the list held by data
\* itself, then the rows are written.
update_order_book_ui(data) ==
    LET asks == Reversed(data.a)
    IN  [data |-> [data EXCEPT !.a = asks],
         ask_price_labels |-> label_rows(asks),
         bid_price_labels |-> label_rows(data.b)]

\* BinanceWorker.connect_and_listen: a message of the listener's stream is
\* received and data_received is emitted; the connection to the window's
\* slot is queued, the threads being different.
WorkerEmit ==
    /\ worker.alive
    /\ worker.running \/ worker.in_recv
    /\ Len(data_received) < MaxQueued
    /\ \E data \in OrderBooks(worker.symbol) :
          data_received' = Append(data_received, data)
    /\ \E s \in {[State EXCEPT !.worker.in_recv = worker.running]} : Commit(s)
    /\ last' = [op |-> "emit", calc |-> "none", ntp |-> "none",
                derived |-> <<>>, escaped |-> FALSE]
    /\ UNCHANGED <<exchange_position, exchange_balance, best_ask_price,
                   best_bid_price, latest_order_book_data, ask_price_labels,
                   bid_price_labels, probe>>

\* The window's event loop delivers the oldest queued message to
\* buffer_order_book_data.
DeliverOrderBook ==
    /\ data_received # <<>>
    /\ Buffered(Head(data_received))
    /\ data_received' = Tail(data_received)

\* The stopped listener's loop ends and its thread finishes: start_worker,
\* connected to finished, starts a listener for the symbol selected by then.
WorkerFinished ==
    /\ worker.alive /\ ~worker.running
    /\ \E s \in {[State EXCEPT !.worker = IF worker.restart
                                          THEN start_worker(current_selected_symbol)
                                          ELSE [worker EXCEPT !.alive = FALSE]]} :
          Commit(s)
    /\ last' = [op |-> "start_worker", calc |-> "none", ntp |-> "none",
                derived |-> <<>>, escaped |-> FALSE]
    /\ UNCHANGED Env

\* ui_update_timer: update_ui_from_buffer renders the buffer when it holds
\* a message.
UpdateUiFromBuffer ==
    /\ latest_order_book_data # NoData
    /\ \E r \in {update_order_book_ui(latest_order_book_data)} :
          /\ latest_order_book_data' = r.data
          /\ ask_price_labels' = r.ask_price_labels
          /\ bid_price_labels' = r.bid_price_labels
    /\ last' = [op |-> "update_ui_from_buffer", calc |-> "none", ntp |-> "none",
                derived |-> <<>>, escaped |-> FALSE]
    /\ Commit(State)
    /\ UNCHANGED <<exchange_position, exchange_balance, best_ask_price,
                   best_bid_price, data_received, probe>>

NextBook ==
    \/ WorkerEmit
    \/ DeliverOrderBook
    \/ UpdateUiFromBuffer
    \/ SymbolChanged
    \/ WorkerFinished

SpecBook == Init /\ [][NextBook]_vars

\* C27: the best ask, the best bid and the buffered message are never those
\* of another symbol's stream than the selected one: after a symbol change
\* they are unset until the new stream delivers, and a message of the old
\* listener is not applied.
C27_NoStaleOrderBook ==
    /\ latest_order_book_data = NoData \/ latest_order_book_data.s = current_selected_symbol
    /\ \A data \in OrderBooks(IF current_selected_symbol = DefaultSymbol
                              THEN "ETHUSDT" ELSE DefaultSymbol) :
          /\ best_ask_price # data.a[1][1]
          /\ best_bid_price # data.b[1][1]

\* C28: a poll of the buffer leaves the buffered message as it was, and a
\* poll that follows a poll renders the rows the first one rendered.
C28_PollingReadOnly ==
    [][last'.op = "update_ui_from_buffer" =>
          /\ latest_order_book_data' = latest_order_book_data
          /\ last.op = "update_ui_from_buffer" =>
                /\ ask_price_labels' = ask_price_labels
                /\ bid_price_labels' = bid_price_labels]_vars

-----------------------------------------------------------------------------
(* The side of the target grid. *)

\* The side of the position a stored nTP was computed from: every position
\* of the model has the entry price 19.99, a LONG position's nTP lies above
\* its entry price and a SHORT position's below.
NtpPositionSide(ntp) ==
    IF \A p \in Positions \ {NoPosition} : RLt(p.entryPrice, ntp) THEN "LONG" ELSE "SHORT"

\* C29: the orders of a target grid are SELL when the nTP at its center was
\* computed from a LONG position and BUY when from a SHORT one, whatever
\* position type is selected in the window.
C29_TargetSideOppositeToPosition ==
    PlacedGrid("target") =>
        \A k \in DOMAIN last.orders :
            last.orders[k].sent =>
                last.orders[k].side =
                    (IF NtpPositionSide(last.center_price) = "LONG" THEN "SELL" ELSE "BUY")

-----------------------------------------------------------------------------
(* The signals one gesture sets off between the quantity field, the slider  *)
(* and the leverage field.                                                  *)

UserEdits == {"edit_quantity", "move_slider", "set_max_quantity",
              "set_super_max_quantity", "edit_leverage"}

\* C30: the cascade of change signals that one user edit sets off is finite:
\* at most three signals (one per widget), and the slider's valueChanged is
\* never emitted after another signal, so the quantity field and the slider
\* do not re-trigger each other.
C30_CascadeTerminates ==
    last.op \in UserEdits =>
        /\ Len(last.cascade) <= 3
        /\ \A i \in DOMAIN last.cascade :
              last.cascade[i] = "quantity_slider.valueChanged" => i = 1

\* The slider moved at leverage 125: valueChanged, then the leverage field
\* rewritten to the 100 its tier allows, then the quantity field, whose slot
\* sets the slider silently.
C30_Witness ==
    /\ last.op = "move_slider"
    /\ last.cascade = <<"quantity_slider.valueChanged", "leverage_input.textChanged",
                        "quantity_input.textChanged">>
    /\ leverage_input = RInt(100)
    /\ RPositive(quantity_input)

====
